---- MODULE Spec2Model ----
(***************************************************************************)
(* Model of src/ai_gen/mss_helpers_ai.py: the PlayerStats snapshot (the    *)
(* aggregation of per-pitch records into four derived views), compare_to   *)
(* and calculate_mss.                                                      *)
(*                                                                         *)
(* Python floats are IEEE-754 binary64 values and the claims speak of      *)
(* exact results (a component "exactly 1", a score "exactly 50.0"), so     *)
(* the arithmetic is modelled bit for bit: a float is sign * mantissa *    *)
(* 2^exponent with a 53-bit mantissa, every operation computes the exact   *)
(* result and rounds it to nearest, ties to even.  Mantissas do not fit    *)
(* TLC's 32-bit integers and are kept as little-endian sequences of        *)
(* 15-bit limbs.                                                           *)
(***************************************************************************)
EXTENDS Integers, Sequences, FiniteSets, TLC

(***************************************************************************)
(* Natural numbers of arbitrary size: <<>> is 0, the last limb is never 0. *)
(***************************************************************************)
Base == 2^15

RECURSIVE BNorm(_)
BNorm(a) ==
    IF a = <<>> THEN <<>>
    ELSE IF a[Len(a)] = 0 THEN BNorm(SubSeq(a, 1, Len(a) - 1))
    ELSE a

BFromNat(n) ==
    BNorm(<<n % Base, (n \div Base) % Base, n \div (Base * Base)>>)

Limb(a, i) == IF i <= Len(a) THEN a[i] ELSE 0

RECURSIVE BCmpAt(_, _, _)
BCmpAt(a, b, i) ==
    IF i = 0 THEN 0
    ELSE IF a[i] > b[i] THEN 1
    ELSE IF a[i] < b[i] THEN -1
    ELSE BCmpAt(a, b, i - 1)

\* -1, 0, 1 as a < b, a = b, a > b
BCmp(a, b) ==
    IF Len(a) > Len(b) THEN 1
    ELSE IF Len(a) < Len(b) THEN -1
    ELSE BCmpAt(a, b, Len(a))

RECURSIVE BAddAt(_, _, _, _)
BAddAt(a, b, i, c) ==
    IF i > Len(a) /\ i > Len(b)
    THEN (IF c = 0 THEN <<>> ELSE <<c>>)
    ELSE LET x == Limb(a, i) + Limb(b, i) + c
         IN  <<x % Base>> \o BAddAt(a, b, i + 1, x \div Base)

BAdd(a, b) == BAddAt(a, b, 1, 0)

RECURSIVE BSubAt(_, _, _, _)
BSubAt(a, b, i, c) ==
    IF i > Len(a) THEN <<>>
    ELSE LET x == a[i] - Limb(b, i) - c
         IN  IF x < 0
             THEN <<x + Base>> \o BSubAt(a, b, i + 1, 1)
             ELSE <<x>> \o BSubAt(a, b, i + 1, 0)

\* a - b for a >= b
BSub(a, b) == BNorm(BSubAt(a, b, 1, 0))

RECURSIVE BMulSAt(_, _, _, _)
BMulSAt(a, k, i, c) ==
    IF i > Len(a)
    THEN (IF c = 0 THEN <<>> ELSE <<c>>)
    ELSE LET x == a[i] * k + c
         IN  <<x % Base>> \o BMulSAt(a, k, i + 1, x \div Base)

\* a * k for 0 <= k < Base
BMulS(a, k) == IF k = 0 THEN <<>> ELSE BMulSAt(a, k, 1, 0)

\* a * Base^n
BShlL(a, n) == IF a = <<>> THEN <<>> ELSE [i \in 1..n |-> 0] \o a

RECURSIVE BMulAt(_, _, _)
BMulAt(a, b, i) ==
    IF i > Len(b) THEN <<>>
    ELSE BAdd(BShlL(BMulS(a, b[i]), i - 1), BMulAt(a, b, i + 1))

BMul(a, b) == BMulAt(a, b, 1)

RECURSIVE BitsOf(_)
BitsOf(n) == IF n = 0 THEN 0 ELSE 1 + BitsOf(n \div 2)

BitLen(a) == IF a = <<>> THEN 0 ELSE 15 * (Len(a) - 1) + BitsOf(a[Len(a)])

\* a * 2^k
BShl(a, k) == BShlL(BMulS(a, 2^(k % 15)), k \div 15)

RECURSIVE BDivSAt(_, _, _, _)
BDivSAt(a, k, i, r) ==
    IF i = 0 THEN [q |-> <<>>, r |-> r]
    ELSE LET x    == r * Base + a[i]
             rest == BDivSAt(a, k, i - 1, x % k)
         IN  [q |-> rest.q \o <<x \div k>>, r |-> rest.r]

\* a \div k and a % k for 0 < k <= Base
BDivS(a, k) ==
    LET d == BDivSAt(a, k, Len(a), 0)
    IN  [q |-> BNorm(d.q), r |-> d.r]

\* a \div 2^k, and whether a bit was shifted out
BShr(a, k) ==
    LET n    == k \div 15
        low  == SubSeq(a, 1, IF n < Len(a) THEN n ELSE Len(a))
        high == SubSeq(a, n + 1, Len(a))
        d    == BDivS(high, 2^(k % 15))
    IN  [q |-> d.q, sticky |-> d.r # 0 \/ \E i \in 1..Len(low) : low[i] # 0]

RECURSIVE QFit(_, _, _)
QFit(R, D, q) == IF BCmp(BMulS(D, q), R) > 0 THEN QFit(R, D, q - 1) ELSE q

\* R \div D for R < D * Base and a D whose top limb is >= Base / 2
QDigit(R, D) ==
    IF BCmp(R, D) < 0 THEN 0
    ELSE LET n  == Len(D)
             rt == Limb(R, n + 1) * Base + R[n]
             qh == rt \div D[n]
         IN  QFit(R, D, IF qh > Base - 1 THEN Base - 1 ELSE qh)

\* the next digit of the long division: the remainder p.r so far takes
\* the limb in below it, and the digit goes below the quotient p.q
BDivDigit(D, R1, Q, d) == [q |-> <<d>> \o Q, r |-> BSub(R1, BMulS(D, d))]

BDivStep(D, limb, p) ==
    IF p.r = <<>> /\ limb = 0 THEN [q |-> <<0>> \o p.q, r |-> <<>>]
    ELSE BDivDigit(D, BNorm(<<limb>> \o p.r), p.q,
                   QDigit(BNorm(<<limb>> \o p.r), D))

\* the division of the limbs i.. of N: the top Len(D) - 1 limbs are less
\* than D and give no digit
RECURSIVE BDivAt(_, _, _)
BDivAt(N, D, i) ==
    IF i > Len(N) - (Len(D) - 1)
    THEN [q |-> <<>>, r |-> BNorm(SubSeq(N, i, Len(N)))]
    ELSE BDivStep(D, N[i], BDivAt(N, D, i + 1))

BDivNorm(d) == [q |-> BNorm(d.q), r |-> d.r]

\* N \div D and N % D for a D whose top limb is >= Base / 2
BDivMod(N, D) == BDivNorm(BDivAt(N, D, 1))

(***************************************************************************)
(* binary64: [s, m, e] is s * m * 2^e with s in {-1, 1} and m of exactly   *)
(* 53 bits; zero is FZero (Python's 0.0 == -0.0 == 0, one value here).     *)
(***************************************************************************)
FZero == [s |-> 0, m |-> <<>>, e |-> 0]

\* the result of a division by zero: no number
FNaN == [s |-> 0, m |-> <<>>, e |-> 1]

\* m1 * 2^e, m1 of 53 or 54 bits (54 after a carry out of the rounding)
FNormal(s, m1, e) ==
    IF BitLen(m1) = 54 THEN [s |-> s, m |-> BShr(m1, 1).q, e |-> e + 1]
    ELSE [s |-> s, m |-> m1, e |-> e]

\* q with the rounding bit rb and the sticky bit st below it: to nearest,
\* ties to even
FRoundQ(s, q, e, rb, st) ==
    FNormal(s, IF rb /\ (st \/ q[1] % 2 = 1) THEN BAdd(q, <<1>>) ELSE q, e)

\* sh is N without the bits below its rounding bit
FRoundBits(s, sh, e, sticky) ==
    FRoundQ(s, BShr(sh.q, 1).q, e, sh.q[1] % 2 = 1, sh.sticky \/ sticky)

FRoundLen(s, N, e, sticky, L) ==
    IF N = <<>> THEN FZero
    ELSE IF L <= 53 THEN [s |-> s, m |-> BShl(N, 53 - L), e |-> e - (53 - L)]
    ELSE FRoundBits(s, BShr(N, L - 54), e + (L - 53), sticky)

\* s * (N + f) * 2^e rounded to nearest, ties to even; 0 <= f < 1, and
\* sticky tells f > 0 (then N has more than 54 bits)
FRound(s, N, e, sticky) == FRoundLen(s, N, e, sticky, BitLen(N))

\* float(n) of a Python int
FInt(n) ==
    FRound(IF n < 0 THEN -1 ELSE 1, BFromNat(IF n < 0 THEN -n ELSE n), 0, FALSE)

FNeg(x) == [x EXCEPT !.s = -x.s]

\* sx * nx * 2^e + sy * ny * 2^e, c the comparison of nx with ny
FAddCmp(sx, sy, nx, ny, e, c) ==
    FRound(IF c >= 0 THEN sx ELSE sy,
           IF sx = sy THEN BAdd(nx, ny)
           ELSE IF c >= 0 THEN BSub(nx, ny) ELSE BSub(ny, nx),
           e, FALSE)

FAddMag(sx, sy, nx, ny, e) == FAddCmp(sx, sy, nx, ny, e, BCmp(nx, ny))

\* x + y with both mantissas brought to the exponent e
FAddAt(x, y, e) ==
    FAddMag(x.s, y.s, BShl(x.m, x.e - e), BShl(y.m, y.e - e), e)

\* x + y
FAdd(x, y) ==
    IF x.s = 0 THEN y
    ELSE IF y.s = 0 THEN x
    ELSE FAddAt(x, y, IF x.e < y.e THEN x.e ELSE y.e)

\* x - y
FSub(x, y) == FAdd(x, FNeg(y))

\* x * y
FMul(x, y) ==
    IF x.s = 0 \/ y.s = 0 THEN FZero
    ELSE FRound(x.s * y.s, BMul(x.m, y.m), x.e + y.e, FALSE)

\* the quotient d.q with remainder d.r, rounded
FDivQ(s, d, e) == FRound(s, d.q, e, d.r # <<>>)

\* x / y; a zero divisor (Python raises ZeroDivisionError, numpy yields
\* nan or inf) gives FNaN, and the callers decide which of the two happens
FDiv(x, y) ==
    IF y.s = 0 THEN FNaN
    ELSE IF x.s = 0 THEN FZero
    ELSE FDivQ(x.s * y.s,
               BDivMod(BShlL(BMulS(x.m, 128), 4), BMulS(y.m, 128)),
               x.e - y.e - 60)

\* -1, 0, 1 as x < y, x = y, x > y
FCmp(x, y) ==
    IF x.s # y.s THEN (IF x.s > y.s THEN 1 ELSE -1)
    ELSE IF x.s = 0 THEN 0
    ELSE LET e == IF x.e < y.e THEN x.e ELSE y.e
         IN  x.s * BCmp(BShl(x.m, x.e - e), BShl(y.m, y.e - e))

FLt(x, y) == FCmp(x, y) < 0
FLe(x, y) == FCmp(x, y) <= 0

\* Python's max(x, y) and min(x, y): the first argument unless the second
\* is strictly larger (smaller)
FMax(x, y) == IF FLt(x, y) THEN y ELSE x
FMin(x, y) == IF FLt(y, x) THEN y ELSE x

\* the float a decimal literal num/den denotes (the nearest binary64)
FLit(num, den) == FDiv(FInt(num), FInt(den))

(***************************************************************************)
(* Dictionaries and record sets.                                           *)
(*                                                                         *)
(* A Python dict is a function on its keys; d.get(k, default) is Get.      *)
(* A cell of a record set is <<>> when missing (NaN / None) and <<v>>      *)
(* otherwise.  A record set (pandas DataFrame) is its set of columns and   *)
(* its rows; nothing the program computes depends on the order of the      *)
(* rows, so equal rows are kept together as one group [n, r]: n >= 1       *)
(* copies of the row r.  Numeric cells hold integers.                      *)
(***************************************************************************)
EmptyDict == [k \in {} |-> 0]

Get(d, k, default) == IF k \in DOMAIN d THEN d[k] ELSE default

Columns ==
    {"events", "description", "bb_type", "pitch_type", "launch_speed",
     "launch_angle", "hit_distance_sc", "release_speed", "release_spin_rate",
     "balls", "strikes", "on_1b", "on_2b", "on_3b", "inning", "at_bat_number",
     "runs_scored_on_play", "woba_value", "woba_denom"}

\* pd.DataFrame(): no column, no row
EmptyFrame == [cols |-> {}, rows |-> <<>>]

RECURSIVE SumOver(_, _)
SumOver(f, S) ==
    IF S = {} THEN 0
    ELSE LET x == CHOOSE x \in S : TRUE
         IN  f[x] + SumOver(f, S \ {x})

\* len(stats)
NRows(stats) ==
    SumOver([i \in DOMAIN stats.rows |-> stats.rows[i].n], DOMAIN stats.rows)

\* stats.empty: either axis has length 0
IsEmpty(stats) == stats.cols = {} \/ NRows(stats) = 0

\* the distinct rows of a record set
RowSet(stats) == {stats.rows[i].r : i \in DOMAIN stats.rows}

\* stats[mask]: the rows the mask selects
Filter(stats, mask) ==
    [cols |-> stats.cols, rows |-> SelectSeq(stats.rows, LAMBDA g : g.r \in mask)]

\* sum(mask): how many rows the mask selects
Count(stats, mask) == NRows(Filter(stats, mask))

\* the non-missing values of a column
Values(stats, c) ==
    {stats.rows[i].r[c][1] : i \in {j \in DOMAIN stats.rows : stats.rows[j].r[c] # <<>>}}

\* stats[c].value_counts().to_dict()
ValueCounts(stats, c) ==
    [v \in Values(stats, c) |-> Count(stats, {r \in RowSet(stats) : r[c] = <<v>>})]

\* stats[c].sum(): missing values are skipped
ColSum(stats, c) ==
    SumOver([i \in DOMAIN stats.rows |->
                IF stats.rows[i].r[c] = <<>> THEN 0
                ELSE stats.rows[i].n * stats.rows[i].r[c][1]],
            DOMAIN stats.rows)

\* stats[c].dropna().empty
NoValue(stats, c) == Values(stats, c) = {}

\* stats[c].mean() over the non-missing values, which are integers: the
\* sum is exact and the quotient is rounded once
ColMean(stats, c) ==
    FDiv(FInt(ColSum(stats, c)), FInt(Count(stats, {r \in RowSet(stats) : r[c] # <<>>})))

\* stats[c].max()
ColMax(stats, c) ==
    CHOOSE v \in Values(stats, c) : \A w \in Values(stats, c) : w <= v

HitEvents == {"single", "double", "triple", "home_run"}
NoAtBatEvents == {"walk", "hit_by_pitch", "sac_fly", "sac_bunt"}

\* pd.notna(events) & events.isin(hits)
IsHit(r) == r.events # <<>> /\ r.events[1] \in HitEvents

\* a single listed among the events that are no at-bat
IsAtBatNoSingle(r) ==
    r.events # <<>> /\ r.events[1] \notin (NoAtBatEvents \cup {"single"})

\* pd.notna(events) & ~events.isin(walk, hit_by_pitch, sac_fly, sac_bunt)
IsAtBat(r) == r.events # <<>> /\ r.events[1] \notin NoAtBatEvents

(***************************************************************************)
(* The aggregation: the four derived views of a snapshot.  Counts are      *)
(* Python ints and stay integers; every quotient is a float.               *)
(***************************************************************************)
\* the quotient taken of a zero denominator as well
RatioUnguarded(n, d) == FDiv(FInt(n), FInt(d))

\* n / d if d > 0 else 0
Ratio(n, d) == IF d > 0 THEN FDiv(FInt(n), FInt(d)) ELSE FZero

\* stats[c].sum() if c in stats.columns else 0
SumOrZero(stats, c) == IF c \in stats.cols THEN ColSum(stats, c) ELSE 0

\* stats[c].max() if c in stats.columns and not stats[c].dropna().empty else 0
MaxOrZero(stats, c) ==
    IF c \in stats.cols /\ ~NoValue(stats, c) THEN FInt(ColMax(stats, c))
    ELSE FZero

\* stats[c].mean() if c in stats.columns and not stats[c].dropna().empty else 0
MeanOrZero(stats, c) ==
    IF c \in stats.cols /\ ~NoValue(stats, c) THEN ColMean(stats, c) ELSE FZero

BatterSummary(stats, events_counts, total_pas, total_abs, singles, doubles, triples, home_runs, walks, strikeouts, hit_by_pitch, on_base_pct, slug_pct) ==
    [total_pas |-> total_pas,
     total_abs |-> total_abs,
     singles |-> singles,
     doubles |-> doubles,
     triples |-> triples,
     home_runs |-> home_runs,
     hits |-> singles + doubles + triples + home_runs,
     walks |-> walks,
     strikeouts |-> strikeouts,
     hit_by_pitch |-> hit_by_pitch,
     batting_avg |-> Ratio(singles + doubles + triples + home_runs, total_abs),
     on_base_pct |-> on_base_pct,
     slug_pct |-> slug_pct,
     ops |-> FAdd(on_base_pct, slug_pct),
     woba |-> Ratio(SumOrZero(stats, "woba_value"), SumOrZero(stats, "woba_denom")),
     avg_launch_speed |-> MeanOrZero(stats, "launch_speed"),
     avg_launch_angle |-> MeanOrZero(stats, "launch_angle"),
     max_exit_velo |-> MaxOrZero(stats, "launch_speed"),
     max_distance |-> MaxOrZero(stats, "hit_distance_sc"),
     events_counts |-> events_counts]

\* a home run counted as five bases
BatterRatesFiveBases(stats, events_counts, total_pas, total_abs, singles, doubles, triples, home_runs, walks, strikeouts, hit_by_pitch) ==
    BatterSummary(stats, events_counts, total_pas, total_abs, singles, doubles,
                  triples, home_runs, walks, strikeouts, hit_by_pitch,
                  Ratio(singles + doubles + triples + home_runs + walks
                        + hit_by_pitch, total_pas),
                  Ratio(singles + 2 * doubles + 3 * triples + 5 * home_runs,
                        total_abs))

BatterRates(stats, events_counts, total_pas, total_abs, singles, doubles, triples, home_runs, walks, strikeouts, hit_by_pitch) ==
    BatterSummary(stats, events_counts, total_pas, total_abs, singles, doubles,
                  triples, home_runs, walks, strikeouts, hit_by_pitch,
                  Ratio(singles + doubles + triples + home_runs + walks
                        + hit_by_pitch, total_pas),
                  Ratio(singles + 2 * doubles + 3 * triples + 4 * home_runs,
                        total_abs))

BatterCounts(stats, events_counts, total_pas, total_abs) ==
    BatterRates(stats, events_counts, total_pas, total_abs,
                Get(events_counts, "single", 0),
                Get(events_counts, "double", 0),
                Get(events_counts, "triple", 0),
                Get(events_counts, "home_run", 0),
                Get(events_counts, "walk", 0),
                Get(events_counts, "strikeout", 0),
                Get(events_counts, "hit_by_pitch", 0))

\* without an events column total_pas is len(stats) and total_abs is
\* total_pas
_calculate_batter_summary_stats(stats) ==
    BatterCounts(stats,
                 IF "events" \in stats.cols THEN ValueCounts(stats, "events")
                 ELSE EmptyDict,
                 IF "events" \in stats.cols
                 THEN Count(stats, {r \in RowSet(stats) : r.events # <<>>})
                 ELSE NRows(stats),
                 IF "events" \in stats.cols THEN Count(stats, {r \in RowSet(stats) : IsAtBat(r)})
                 ELSE NRows(stats))

\* hits * 0.5
HalfOf(hits) == FMul(FInt(hits), FLit(5, 10))

\* x / innings_pitched if innings_pitched > 0 else 0
PerInning(x, innings_pitched) ==
    IF FLt(FZero, innings_pitched) THEN FDiv(x, innings_pitched) ELSE FZero

\* outs / 3 if outs > 0 else total_batters_faced / 3
InningsPitched(outs, total_batters_faced) ==
    IF outs > 0 THEN FDiv(FInt(outs), FInt(3))
    ELSE FDiv(FInt(total_batters_faced), FInt(3))

\* the pitches on which a run scored, or hits * 0.5 without that column
RunsAllowed(stats, hits) ==
    IF "runs_scored_on_play" \in stats.cols
    THEN FInt(Count(stats, {r \in RowSet(stats) : r.runs_scored_on_play # <<>>
                                      /\ r.runs_scored_on_play[1] > 0}))
    ELSE HalfOf(hits)

PitcherSummary(stats, events_counts, total_batters_faced, hits, walks, strikeouts, home_runs, innings_pitched, runs_allowed) ==
    [total_batters_faced |-> total_batters_faced,
     total_pitches |-> NRows(stats),
     innings_pitched |-> innings_pitched,
     hits |-> hits,
     walks |-> walks,
     strikeouts |-> strikeouts,
     home_runs |-> home_runs,
     runs_allowed |-> runs_allowed,
     era |-> FMax(FZero, PerInning(FMul(FInt(9), runs_allowed), innings_pitched)),
     whip |-> PerInning(FInt(hits + walks), innings_pitched),
     k_per_9 |-> PerInning(FInt(9 * strikeouts), innings_pitched),
     bb_per_9 |-> PerInning(FInt(9 * walks), innings_pitched),
     hr_per_9 |-> PerInning(FInt(9 * home_runs), innings_pitched),
     k_bb_ratio |-> IF walks > 0 THEN FDiv(FInt(strikeouts), FInt(walks))
                    ELSE FInt(strikeouts),
     avg_velocity |-> MeanOrZero(stats, "release_speed"),
     avg_spin_rate |-> MeanOrZero(stats, "release_spin_rate"),
     events_counts |-> events_counts]

\* field_outs + strikeouts + force_outs + double_plays
Outs(events_counts) ==
    Get(events_counts, "field_out", 0) + Get(events_counts, "strikeout", 0)
    + Get(events_counts, "force_out", 0)
    + Get(events_counts, "grounded_into_double_play", 0) * 2

PitcherCounts(stats, events_counts, total_batters_faced, hits) ==
    PitcherSummary(stats, events_counts, total_batters_faced, hits,
                   Get(events_counts, "walk", 0),
                   Get(events_counts, "strikeout", 0),
                   Get(events_counts, "home_run", 0),
                   InningsPitched(Outs(events_counts), total_batters_faced),
                   RunsAllowed(stats, hits))

_calculate_pitcher_summary_stats(stats) ==
    PitcherCounts(stats,
                  IF "events" \in stats.cols THEN ValueCounts(stats, "events")
                  ELSE EmptyDict,
                  IF "at_bat_number" \in stats.cols
                  THEN Cardinality(Values(stats, "at_bat_number"))
                  ELSE NRows(stats),
                  IF "events" \in stats.cols THEN Count(stats, {r \in RowSet(stats) : IsHit(r)}) ELSE 0)

\* stats.dropna(subset=['bb_type']) if 'bb_type' in stats.columns else
\* pd.DataFrame()
BattedBalls(stats) ==
    IF "bb_type" \in stats.cols THEN Filter(stats, {r \in RowSet(stats) : r.bb_type # <<>>})
    ELSE EmptyFrame

\* n / total_batted_balls if total_batted_balls > 0 else 0
Pct(n, total_batted_balls) ==
    IF total_batted_balls > 0 THEN FDiv(FInt(n), FInt(total_batted_balls))
    ELSE FZero

\* sum(batted_balls['launch_speed'] >= 95)
HardHitBalls(batted_balls) ==
    IF "launch_speed" \in batted_balls.cols
    THEN Count(batted_balls,
               {r \in RowSet(batted_balls) : r.launch_speed # <<>> /\ r.launch_speed[1] >= 95})
    ELSE 0

\* launch angles up to 35 degrees counted
BarrelsUpTo35(batted_balls) ==
    IF "launch_speed" \in batted_balls.cols /\ "launch_angle" \in batted_balls.cols
    THEN Count(batted_balls,
               {r \in RowSet(batted_balls) : /\ r.launch_speed # <<>>
                          /\ r.launch_speed[1] >= 98
                          /\ r.launch_angle # <<>>
                          /\ r.launch_angle[1] >= 8
                          /\ r.launch_angle[1] <= 35})
    ELSE 0

\* sum((launch_speed >= 98) & (launch_angle >= 8) & (launch_angle <= 32))
Barrels(batted_balls) ==
    IF "launch_speed" \in batted_balls.cols /\ "launch_angle" \in batted_balls.cols
    THEN Count(batted_balls,
               {r \in RowSet(batted_balls) : /\ r.launch_speed # <<>>
                          /\ r.launch_speed[1] >= 98
                          /\ r.launch_angle # <<>>
                          /\ r.launch_angle[1] >= 8
                          /\ r.launch_angle[1] <= 32})
    ELSE 0

BattedBallPcts(batted_balls, bb_types, total_batted_balls) ==
    [available |-> TRUE,
     ground_ball_pct |-> Pct(Get(bb_types, "ground_ball", 0), total_batted_balls),
     fly_ball_pct |-> Pct(Get(bb_types, "fly_ball", 0), total_batted_balls),
     line_drive_pct |-> Pct(Get(bb_types, "line_drive", 0), total_batted_balls),
     popup_pct |-> Pct(Get(bb_types, "popup", 0), total_batted_balls),
     hard_hit |-> Pct(HardHitBalls(batted_balls), total_batted_balls),
     barrel |-> Pct(Barrels(batted_balls), total_batted_balls),
     total_batted_balls |-> total_batted_balls,
     batted_ball_types |-> bb_types]

\* _calculate_batter_batted_ball_profile and
\* _calculate_pitcher_batted_ball_profile: the same computation, stored
\* under hard_hit_rate / barrel_rate for a batter and under
\* hard_hit_rate_allowed / barrel_rate_allowed for a pitcher
BattedBallRates(batted_balls) ==
    IF IsEmpty(batted_balls) THEN [available |-> FALSE]
    ELSE BattedBallPcts(batted_balls, ValueCounts(batted_balls, "bb_type"),
                        NRows(batted_balls))

BatterProfile(p) ==
    IF ~p.available THEN p
    ELSE [available |-> TRUE,
          ground_ball_pct |-> p.ground_ball_pct,
          fly_ball_pct |-> p.fly_ball_pct,
          line_drive_pct |-> p.line_drive_pct,
          popup_pct |-> p.popup_pct,
          hard_hit_rate |-> p.hard_hit,
          barrel_rate |-> p.barrel,
          total_batted_balls |-> p.total_batted_balls,
          batted_ball_types |-> p.batted_ball_types]

PitcherProfile(p) ==
    IF ~p.available THEN p
    ELSE [available |-> TRUE,
          ground_ball_pct |-> p.ground_ball_pct,
          fly_ball_pct |-> p.fly_ball_pct,
          line_drive_pct |-> p.line_drive_pct,
          popup_pct |-> p.popup_pct,
          hard_hit_rate_allowed |-> p.hard_hit,
          barrel_rate_allowed |-> p.barrel,
          total_batted_balls |-> p.total_batted_balls,
          batted_ball_types |-> p.batted_ball_types]

_calculate_batter_batted_ball_profile(stats) ==
    BatterProfile(BattedBallRates(BattedBalls(stats)))

_calculate_pitcher_batted_ball_profile(stats) ==
    PitcherProfile(BattedBallRates(BattedBalls(stats)))

StrikeDescriptions == {"called_strike", "swinging_strike", "foul", "foul_tip"}
SwingDescriptions == {"swinging_strike", "foul", "foul_tip", "hit_into_play"}

\* group[c].isin(S), group[c] == v on a description cell
DescIn(r, S) == r.description # <<>> /\ r.description[1] \in S

\* the groups of stats.groupby('pitch_type') the loop does not skip: the
\* non-missing labels other than ''
PitchLabels(stats) == Values(stats, "pitch_type") \ {""}

PitchGroup(stats, pitch_type) ==
    Filter(stats, {r \in RowSet(stats) : r.pitch_type = <<pitch_type>>})

\* the rates both roles compute for one pitch type
PitchRates(group) ==
    LET has_desc == "description" \in group.cols
        total_pitches == NRows(group)
        strikes ==
            IF has_desc
            THEN Count(group, {r \in RowSet(group) : DescIn(r, StrikeDescriptions)}) ELSE 0
        swing_count ==
            IF has_desc
            THEN Count(group, {r \in RowSet(group) : DescIn(r, SwingDescriptions)}) ELSE 0
        whiff_count ==
            IF has_desc
            THEN Count(group, {r \in RowSet(group) : DescIn(r, {"swinging_strike"})}) ELSE 0
        in_play ==
            IF has_desc
            THEN Count(group, {r \in RowSet(group) : DescIn(r, {"hit_into_play"})}) ELSE 0
        total_put_away_opps ==
            IF has_desc
            THEN Count(group,
                       {r \in RowSet(group) : DescIn(r, {"swinging_strike", "hit_into_play"})})
            ELSE 0
        contact_balls ==
            Filter(group, {r \in RowSet(group) : DescIn(r, {"hit_into_play"})})
    IN  [total_pitches |-> total_pitches,
         strike_rate |->
             IF total_pitches > 0
             THEN FDiv(FInt(strikes), FInt(total_pitches)) ELSE FZero,
         swing_rate |->
             IF total_pitches > 0
             THEN FDiv(FInt(swing_count), FInt(total_pitches)) ELSE FZero,
         whiff_rate |->
             IF swing_count > 0
             THEN FDiv(FInt(whiff_count), FInt(swing_count)) ELSE FZero,
         in_play_rate |->
             IF swing_count > 0
             THEN FDiv(FInt(in_play), FInt(swing_count)) ELSE FZero,
         put_away_rate |->
             IF has_desc /\ total_put_away_opps > 0
             THEN FDiv(FInt(whiff_count), FInt(total_put_away_opps)) ELSE FZero,
         avg_velocity |->
             IF "release_speed" \in group.cols /\ ~NoValue(group, "release_speed")
             THEN ColMean(group, "release_speed") ELSE FZero,
         avg_spin_rate |->
             IF "release_spin_rate" \in group.cols
                /\ ~NoValue(group, "release_spin_rate")
             THEN ColMean(group, "release_spin_rate") ELSE FZero,
         outcomes |->
             IF has_desc THEN ValueCounts(group, "description") ELSE EmptyDict,
         events |->
             IF "events" \in group.cols THEN ValueCounts(group, "events")
             ELSE EmptyDict,
         contact_results |->
             IF "launch_speed" \in group.cols /\ "launch_angle" \in group.cols
                /\ ~IsEmpty(contact_balls)
             THEN [avg_exit_velo |->
                       IF ~NoValue(contact_balls, "launch_speed")
                       THEN ColMean(contact_balls, "launch_speed") ELSE FZero,
                   avg_launch_angle |->
                       IF ~NoValue(contact_balls, "launch_angle")
                       THEN ColMean(contact_balls, "launch_angle") ELSE FZero]
             ELSE EmptyDict]

\* group[group['description'] == 'hit_into_play'] is evaluated, for every
\* group, under the test of launch_speed and launch_angle alone: it raises
\* KeyError('description') when that column is absent
PitchTypeKeyError(stats) ==
    /\ "pitch_type" \in stats.cols
    /\ PitchLabels(stats) # {}
    /\ "launch_speed" \in stats.cols
    /\ "launch_angle" \in stats.cols
    /\ "description" \notin stats.cols

\* the entry a batter's view keeps of the rates of one pitch type
BatterPitchEntry(p) ==
    [total_pitches |-> p.total_pitches,
     strike_rate |-> p.strike_rate,
     swing_rate |-> p.swing_rate,
     whiff_rate |-> p.whiff_rate,
     avg_velocity |-> p.avg_velocity,
     avg_spin_rate |-> p.avg_spin_rate,
     outcomes |-> p.outcomes,
     events |-> p.events,
     contact_results |-> p.contact_results]

\* the entry a pitcher's view keeps
PitcherPitchEntry(p) ==
    [total_pitches |-> p.total_pitches,
     strike_rate |-> p.strike_rate,
     swing_rate |-> p.swing_rate,
     whiff_rate |-> p.whiff_rate,
     in_play_rate |-> p.in_play_rate,
     put_away_rate |-> p.put_away_rate,
     avg_velocity |-> p.avg_velocity,
     avg_spin_rate |-> p.avg_spin_rate,
     events |-> p.events,
     contact_results |-> p.contact_results]

\* {'available': len(pitch_stats) > 0, 'pitch_types': pitch_stats}
PitchTypeView(pitch_stats) ==
    [available |-> DOMAIN pitch_stats # {}, pitch_types |-> pitch_stats]

_calculate_batter_pitch_type_stats(stats) ==
    IF "pitch_type" \notin stats.cols THEN [available |-> FALSE]
    ELSE PitchTypeView([pitch_type \in PitchLabels(stats) |->
                           BatterPitchEntry(
                               PitchRates(PitchGroup(stats, pitch_type)))])

_calculate_pitcher_pitch_type_stats(stats) ==
    IF "pitch_type" \notin stats.cols THEN [available |-> FALSE]
    ELSE PitchTypeView([pitch_type \in PitchLabels(stats) |->
                           PitcherPitchEntry(
                               PitchRates(PitchGroup(stats, pitch_type)))])

(***************************************************************************)
(* Situational statistics.  A key is stored when its columns are present,  *)
(* its group is not empty and the events column is present.                *)
(***************************************************************************)
NumLt(a, b) == a # <<>> /\ b # <<>> /\ a[1] < b[1]

\* the batter's (name, predicate) pairs, as the set of names whose columns
\* are present, and the predicate of each
CountColumns == {"balls", "strikes"}
BaseColumns == {"on_1b", "on_2b", "on_3b"}

BallsOverStrikes(r) == NumLt(r.strikes, r.balls)
StrikesOverBalls(r) == NumLt(r.balls, r.strikes)
\* an even count with the count 0-0 among them
EvenCountWithZero(r) == r.balls # <<>> /\ r.balls = r.strikes

EvenCount(r) == r.balls # <<>> /\ r.balls = r.strikes /\ r.balls[1] > 0
BasesEmpty(r) == r.on_1b = <<>> /\ r.on_2b = <<>> /\ r.on_3b = <<>>
\* a runner on any base
RispAnyRunner(r) == r.on_1b # <<>> \/ r.on_2b # <<>> \/ r.on_3b # <<>>

Risp(r) == r.on_2b # <<>> \/ r.on_3b # <<>>
EarlyInning(r) == r.inning # <<>> /\ r.inning[1] <= 3
MiddleInning(r) == r.inning # <<>> /\ r.inning[1] > 3 /\ r.inning[1] <= 6
LateInning(r) == r.inning # <<>> /\ r.inning[1] > 6

\* the batter's groups for both roles
SituationGroupUnreversed(stats, name, batter) ==
    CASE name = "ahead_count" -> Filter(stats, {r \in RowSet(stats) : BallsOverStrikes(r)})
      [] name = "behind_count" -> Filter(stats, {r \in RowSet(stats) : StrikesOverBalls(r)})
      [] name = "even_count" -> Filter(stats, {r \in RowSet(stats) : EvenCount(r)})
      [] name = "bases_empty" -> Filter(stats, {r \in RowSet(stats) : BasesEmpty(r)})
      [] name = "risp" -> Filter(stats, {r \in RowSet(stats) : Risp(r)})
      [] name = "early_innings" -> Filter(stats, {r \in RowSet(stats) : EarlyInning(r)})
      [] name = "middle_innings" -> Filter(stats, {r \in RowSet(stats) : MiddleInning(r)})
      [] name = "late_innings" -> Filter(stats, {r \in RowSet(stats) : LateInning(r)})

\* the group a situation name selects; ahead is the role's ahead_count
\* group: balls > strikes for a batter, balls < strikes for a pitcher
SituationGroup(stats, name, batter) ==
    CASE name = "ahead_count" ->
             IF batter THEN Filter(stats, {r \in RowSet(stats) : BallsOverStrikes(r)})
             ELSE Filter(stats, {r \in RowSet(stats) : StrikesOverBalls(r)})
      [] name = "behind_count" ->
             IF batter THEN Filter(stats, {r \in RowSet(stats) : StrikesOverBalls(r)})
             ELSE Filter(stats, {r \in RowSet(stats) : BallsOverStrikes(r)})
      [] name = "even_count" -> Filter(stats, {r \in RowSet(stats) : EvenCount(r)})
      [] name = "bases_empty" -> Filter(stats, {r \in RowSet(stats) : BasesEmpty(r)})
      [] name = "risp" -> Filter(stats, {r \in RowSet(stats) : Risp(r)})
      [] name = "early_innings" -> Filter(stats, {r \in RowSet(stats) : EarlyInning(r)})
      [] name = "middle_innings" -> Filter(stats, {r \in RowSet(stats) : MiddleInning(r)})
      [] name = "late_innings" -> Filter(stats, {r \in RowSet(stats) : LateInning(r)})

\* the names whose block runs: its columns are all present
SituationNames(stats) ==
    (IF CountColumns \subseteq stats.cols
     THEN {"ahead_count", "behind_count", "even_count"} ELSE {})
    \cup (IF BaseColumns \subseteq stats.cols THEN {"bases_empty", "risp"} ELSE {})
    \cup (IF "inning" \in stats.cols
          THEN {"early_innings", "middle_innings", "late_innings"} ELSE {})

\* the names that get an entry: `if not group.empty and 'events' in group.columns`
SituationKeys(stats, batter) ==
    {name \in SituationNames(stats) :
        /\ ~IsEmpty(SituationGroup(stats, name, batter))
        /\ "events" \in stats.cols}

\* hits / at_bats if at_bats > 0 else 0
GroupAverage(group) ==
    LET hits == Count(group, {r \in RowSet(group) : IsHit(r)})
        at_bats == Count(group, {r \in RowSet(group) : IsAtBat(r)})
    IN  IF at_bats > 0 THEN FDiv(FInt(hits), FInt(at_bats)) ELSE FZero

_calculate_batter_situational_stats(stats) ==
    [name \in SituationKeys(stats, TRUE) |->
        LET group == SituationGroup(stats, name, TRUE)
        IN  [batting_avg |-> GroupAverage(group),
             total_at_bats |-> Count(group, {r \in RowSet(group) : IsAtBat(r)})]]

_calculate_pitcher_situational_stats(stats) ==
    [name \in SituationKeys(stats, FALSE) |->
        LET group == SituationGroup(stats, name, FALSE)
        IN  [batting_avg_against |-> GroupAverage(group),
             total_at_bats |-> Count(group, {r \in RowSet(group) : IsAtBat(r)})]]

(***************************************************************************)
(* PlayerStats: construction.  The result is the object, or the exception  *)
(* that leaves the constructor (then no object exists).                    *)
(***************************************************************************)
\* str.lower() on the role names the model passes
Lower(s) ==
    CASE s = "Batter" -> "batter"
      [] s = "Pitcher" -> "pitcher"
      [] s = "PITCHER" -> "pitcher"
      [] OTHER -> s

_calculate_batter_stats(stats) ==
    IF PitchTypeKeyError(stats) THEN [exc |-> "KeyError"]
    ELSE [exc |-> "",
          summary_stats |-> _calculate_batter_summary_stats(stats),
          batted_ball_profile |-> _calculate_batter_batted_ball_profile(stats),
          pitch_type_stats |-> _calculate_batter_pitch_type_stats(stats),
          situational_stats |-> _calculate_batter_situational_stats(stats)]

_calculate_pitcher_stats(stats) ==
    IF PitchTypeKeyError(stats) THEN [exc |-> "KeyError"]
    ELSE [exc |-> "",
          summary_stats |-> _calculate_pitcher_summary_stats(stats),
          batted_ball_profile |-> _calculate_pitcher_batted_ball_profile(stats),
          pitch_type_stats |-> _calculate_pitcher_pitch_type_stats(stats),
          situational_stats |-> _calculate_pitcher_situational_stats(stats)]

_calculate_all_stats(player_type, stats) ==
    IF player_type = "batter" THEN _calculate_batter_stats(stats)
    ELSE IF player_type = "pitcher" THEN _calculate_pitcher_stats(stats)
    ELSE [exc |-> "ValueError"]

\* the attributes __init__ leaves when data_available is false
NoViews ==
    [exc |-> "",
     summary_stats |-> EmptyDict,
     batted_ball_profile |-> EmptyDict,
     pitch_type_stats |-> EmptyDict,
     situational_stats |-> EmptyDict]

\* the object with its views, or the exception the aggregation raised
NewPlayerStats(a, player_type, data_available, views) ==
    IF views.exc # "" THEN [exc |-> views.exc]
    ELSE [exc |-> "",
          obj |-> [player_name |-> a.player_name,
                   player_id |-> a.player_id,
                   start_date |-> a.start_date,
                   end_date |-> a.end_date,
                   raw_data |-> a.stats_df,
                   player_type |-> player_type,
                   data_available |-> data_available,
                   summary_stats |-> views.summary_stats,
                   pitch_type_stats |-> views.pitch_type_stats,
                   situational_stats |-> views.situational_stats,
                   batted_ball_profile |-> views.batted_ball_profile]]

\* PlayerStats(player_name, player_id, stats_df, start_date, end_date,
\* player_type): [exc, obj]
PlayerStats(a) ==
    NewPlayerStats(a, Lower(a.player_type), ~IsEmpty(a.stats_df),
                   IF ~IsEmpty(a.stats_df)
                   THEN _calculate_all_stats(Lower(a.player_type), a.stats_df)
                   ELSE NoViews)

(***************************************************************************)
(* get_summary: the flattened summary.  The metric entries are kept under  *)
(* `metrics`; the counts home_runs and total_abs are Python ints there and *)
(* enter the arithmetic of compare_to as the floats of the same value.     *)
(***************************************************************************)
Max(a, b) == IF a > b THEN a ELSE b

\* profile.get(k, 0) if profile.get('available', False) else 0
ProfileGet(profile, k) ==
    IF Get(profile, "available", FALSE) THEN Get(profile, k, FZero) ELSE FZero

get_summary(self) ==
    IF ~self.data_available
    THEN [player_name |-> self.player_name,
          player_id |-> self.player_id,
          data_available |-> FALSE]
    ELSE LET ss == self.summary_stats
         IN  [player_name |-> self.player_name,
              player_id |-> self.player_id,
              data_available |-> TRUE,
              date_range |-> [start |-> self.start_date, end |-> self.end_date],
              metrics |->
                  IF self.player_type = "batter"
                  THEN [batting_avg |-> Get(ss, "batting_avg", FZero),
                        on_base_pct |-> Get(ss, "on_base_pct", FZero),
                        slug_pct |-> Get(ss, "slug_pct", FZero),
                        ops |-> Get(ss, "ops", FZero),
                        home_runs |-> FInt(Get(ss, "home_runs", 0)),
                        total_abs |-> FInt(Get(ss, "total_abs", 0)),
                        strikeout_rate |->
                            FDiv(FInt(Get(ss, "strikeouts", 0)),
                                 FInt(Max(Get(ss, "total_pas", 1), 1))),
                        walk_rate |->
                            FDiv(FInt(Get(ss, "walks", 0)),
                                 FInt(Max(Get(ss, "total_pas", 1), 1))),
                        avg_launch_speed |-> Get(ss, "avg_launch_speed", FZero),
                        avg_launch_angle |-> Get(ss, "avg_launch_angle", FZero),
                        barrel_rate |->
                            ProfileGet(self.batted_ball_profile, "barrel_rate")]
                  ELSE [innings_pitched |-> Get(ss, "innings_pitched", FZero),
                        era |-> Get(ss, "era", FZero),
                        whip |-> Get(ss, "whip", FZero),
                        k_per_9 |-> Get(ss, "k_per_9", FZero),
                        bb_per_9 |-> Get(ss, "bb_per_9", FZero),
                        hr_per_9 |-> Get(ss, "hr_per_9", FZero),
                        k_bb_ratio |-> Get(ss, "k_bb_ratio", FZero),
                        avg_velocity |-> Get(ss, "avg_velocity", FZero),
                        ground_ball_pct |->
                            ProfileGet(self.batted_ball_profile, "ground_ball_pct"),
                        barrel_rate_allowed |->
                            ProfileGet(self.batted_ball_profile,
                                       "barrel_rate_allowed")]]

(***************************************************************************)
(* compare_to.  comparison[f'{key}_change'] is comparison.change[key] and  *)
(* comparison[f'{key}_pct_change'] is comparison.pct_change[key].          *)
(***************************************************************************)
\* other_summary[key] - self_summary[key]
Change(before, after) == FSub(after, before)

\* the percentage taken of a zero before value as well
PctChangeUnguarded(before, after) ==
    FMul(FSub(FDiv(after, before), FInt(1)), FInt(100))

\* ((other_summary[key] / self_summary[key]) - 1) * 100 if self_summary[key] != 0 else 0
PctChange(before, after) ==
    IF before # FZero
    THEN FMul(FSub(FDiv(after, before), FInt(1)), FInt(100))
    ELSE FZero

\* the comparison of two flattened summaries
Comparison(self, other_stats, self_summary, other_summary) ==
    [comparison_available |-> TRUE,
     player_name |-> self.player_name,
     player_id |-> self.player_id,
     from_date |-> self.start_date,
     to_date |-> other_stats.end_date,
     comparison_period |->
         [before |-> [start |-> self.start_date, end |-> self.end_date],
          after |-> [start |-> other_stats.start_date,
                     end |-> other_stats.end_date]],
     change |->
         [key \in DOMAIN self_summary \cap DOMAIN other_summary |->
             Change(self_summary[key], other_summary[key])],
     pct_change |->
         [key \in DOMAIN self_summary \cap DOMAIN other_summary |->
             PctChange(self_summary[key], other_summary[key])]]

\* the roles of the two snapshots not compared
compare_to_any_role(self, other_stats) ==
    IF ~self.data_available \/ ~other_stats.data_available
    THEN [comparison_available |-> FALSE]
    ELSE Comparison(self, other_stats, get_summary(self).metrics,
                    get_summary(other_stats).metrics)

compare_to(self, other_stats) ==
    IF ~self.data_available \/ ~other_stats.data_available
    THEN [comparison_available |-> FALSE]
    ELSE IF self.player_type # other_stats.player_type
    THEN [comparison_available |-> FALSE,
          error |-> "Cannot compare different player types"]
    ELSE Comparison(self, other_stats, get_summary(self).metrics,
                    get_summary(other_stats).metrics)

(***************************************************************************)
(* calculate_mss.  A dict of weights is the sequence of its [k, w] items   *)
(* in insertion order (the order in which sum() adds the weights); the     *)
(* weight_config argument is <<>> for None and <<dict>> for a dict.        *)
(***************************************************************************)
None == <<>>

Range(seq) == {seq[i] : i \in DOMAIN seq}

\* the keys of default_components, in insertion order
BatterComponentKeys ==
    <<"batting_avg", "on_base_pct", "slug_pct", "home_runs_rate",
      "strikeout_rate", "barrel_rate", "launch_speed", "situational">>

PitcherComponentKeys ==
    <<"era", "whip", "k_per_9", "bb_per_9", "hr_per_9", "barrel_rate",
      "velocity", "situational">>

ComponentKeys(player_type) ==
    IF player_type = "batter" THEN BatterComponentKeys ELSE PitcherComponentKeys

\* the literals .15 and .1 of the default tables
DefaultWeightOf(i) ==
    IF i \in {1, 2, 3, 6} THEN FLit(15, 100) ELSE FLit(1, 10)

\* weight_config when the argument is None
DefaultWeights(player_type) ==
    [i \in 1..8 |-> [k |-> ComponentKeys(player_type)[i], w |-> DefaultWeightOf(i)]]

\* default_components
DefaultComponents(player_type) ==
    [k \in Range(ComponentKeys(player_type)) |-> FZero]

\* the values above 1 brought to 1, those below -1 left as they are
ClampAbove(x) == FMin(x, FInt(1))

\* min(max(x, -1), 1)
Clamp(x) == FMin(FMax(x, FInt(-1)), FInt(1))

\* d.get(num, 0) / max(d.get(den, 1), 1)
Rate(d, num, den) ==
    FDiv(FInt(Get(d, num, 0)), FInt(Max(Get(d, den, 1), 1)))

\* 0 without a risp entry, whatever the default
RispGetZero(situational_stats, k, default) ==
    Get(Get(situational_stats, "risp", EmptyDict), k, FZero)

\* situational_stats.get('risp', {}).get(k, default)
RispGet(situational_stats, k, default) ==
    Get(Get(situational_stats, "risp", EmptyDict), k, default)

\* the sign of the strikeout rate change not reversed
StrikeoutChangeUnreversed(k_before, k_after) == FSub(k_after, k_before)

\* k_change = k_before - k_after: a decreasing strikeout rate is good
StrikeoutChange(k_before, k_after) == FSub(k_before, k_after)

BatterComponents(self, other_stats, comparison) ==
    LET ba_change == Get(comparison.change, "batting_avg", FZero)
        obp_change == Get(comparison.change, "on_base_pct", FZero)
        slg_change == Get(comparison.change, "slug_pct", FZero)
        hr_before == Rate(self.summary_stats, "home_runs", "total_abs")
        hr_after == Rate(other_stats.summary_stats, "home_runs", "total_abs")
        hr_change == FSub(hr_after, hr_before)
        k_before == Rate(self.summary_stats, "strikeouts", "total_pas")
        k_after == Rate(other_stats.summary_stats, "strikeouts", "total_pas")
        k_change == StrikeoutChange(k_before, k_after)
        barrel_before == ProfileGet(self.batted_ball_profile, "barrel_rate")
        barrel_after == ProfileGet(other_stats.batted_ball_profile, "barrel_rate")
        barrel_change == FSub(barrel_after, barrel_before)
        speed_before == Get(self.summary_stats, "avg_launch_speed", FZero)
        speed_after == Get(other_stats.summary_stats, "avg_launch_speed", FZero)
        speed_change == FSub(speed_after, speed_before)
        risp_before == RispGet(self.situational_stats, "batting_avg", FZero)
        risp_after == RispGet(other_stats.situational_stats, "batting_avg", FZero)
        risp_change == FSub(risp_after, risp_before)
    IN  [batting_avg |-> Clamp(FDiv(ba_change, FLit(50, 1000))),
         on_base_pct |-> Clamp(FDiv(obp_change, FLit(50, 1000))),
         slug_pct |-> Clamp(FDiv(slg_change, FLit(100, 1000))),
         home_runs_rate |-> Clamp(FDiv(hr_change, FLit(30, 1000))),
         strikeout_rate |-> Clamp(FDiv(k_change, FLit(50, 1000))),
         barrel_rate |-> Clamp(FDiv(barrel_change, FLit(30, 1000))),
         launch_speed |-> Clamp(FDiv(speed_change, FInt(2))),
         situational |-> Clamp(FDiv(risp_change, FLit(70, 1000)))]

PitcherComponents(self, other_stats, comparison) ==
    LET era_before == Get(self.summary_stats, "era", FZero)
        era_after == Get(other_stats.summary_stats, "era", FZero)
        era_change == FSub(era_before, era_after)
        whip_before == Get(self.summary_stats, "whip", FZero)
        whip_after == Get(other_stats.summary_stats, "whip", FZero)
        whip_change == FSub(whip_before, whip_after)
        k9_change == Get(comparison.change, "k_per_9", FZero)
        bb9_change == FNeg(Get(comparison.change, "bb_per_9", FZero))
        hr9_change == FNeg(Get(comparison.change, "hr_per_9", FZero))
        velo_before == Get(self.summary_stats, "avg_velocity", FZero)
        velo_after == Get(other_stats.summary_stats, "avg_velocity", FZero)
        velo_change == FSub(velo_after, velo_before)
        barrel_before ==
            ProfileGet(self.batted_ball_profile, "barrel_rate_allowed")
        barrel_after ==
            ProfileGet(other_stats.batted_ball_profile, "barrel_rate_allowed")
        barrel_change == FSub(barrel_before, barrel_after)
        risp_before ==
            RispGet(self.situational_stats, "batting_avg_against", FLit(3, 10))
        risp_after ==
            RispGet(other_stats.situational_stats, "batting_avg_against",
                    FLit(3, 10))
        risp_change == FSub(risp_before, risp_after)
    IN  [era |-> Clamp(FDiv(era_change, FInt(1))),
         whip |-> Clamp(FDiv(whip_change, FLit(300, 1000))),
         k_per_9 |-> Clamp(FDiv(k9_change, FLit(15, 10))),
         bb_per_9 |-> Clamp(FDiv(bb9_change, FInt(1))),
         hr_per_9 |-> Clamp(FDiv(hr9_change, FLit(5, 10))),
         barrel_rate |-> Clamp(FDiv(barrel_change, FLit(30, 1000))),
         velocity |-> Clamp(FDiv(velo_change, FInt(1))),
         situational |-> Clamp(FDiv(risp_change, FLit(50, 1000)))]

\* component in weight_config
InConfig(weight_config, component) ==
    \E i \in DOMAIN weight_config : weight_config[i].k = component

\* weight_config[component]
WeightOf(weight_config, component) ==
    weight_config[CHOOSE i \in DOMAIN weight_config :
                      weight_config[i].k = component].w

\* the statements of a method run in order: e once v has its value
Then(v, e) == IF v = v THEN e ELSE e

\* sum(weight_config.values()): 0 + w1 + w2 + ..., left to right
RECURSIVE TotalWeight(_, _)
TotalWeight(weight_config, n) ==
    IF n = 0 THEN FZero
    ELSE FAdd(TotalWeight(weight_config, n - 1), weight_config[n].w)

\* the loop over components.items(): weighted_sum after the first n keys
RECURSIVE WeightedSum(_, _, _, _)
WeightedSum(components, keys, weight_config, n) ==
    IF n = 0 THEN FZero
    ELSE LET rest == WeightedSum(components, keys, weight_config, n - 1)
         IN  IF ~InConfig(weight_config, keys[n]) THEN rest
             ELSE FAdd(rest, FMul(components[keys[n]],
                                  WeightOf(weight_config, keys[n])))

\* the quotient numpy gives for a division by zero: nan for 0 / 0, an
\* infinity of the dividend's sign otherwise
FNonFinite(s) == [s |-> s, m |-> <<>>, e |-> 1]

IsFinite(x) == x.m # <<>> \/ x = FZero

\* weighted_sum / total_weight with total_weight = 0 raises
\* ZeroDivisionError when weighted_sum is a Python number; when a numpy
\* scalar entered the sum (the aggregation yields numpy or Python numbers
\* depending on the column and on the pandas version) the division
\* yields nan or an infinity.  With no component key in the
\* configuration weighted_sum is the int 0 and the division raises.
ZeroTotalOutcomes(player_type, weight_config_arg) ==
    LET weight_config ==
            IF weight_config_arg = None THEN DefaultWeights(player_type)
            ELSE weight_config_arg[1]
    IN  IF /\ TotalWeight(weight_config, Len(weight_config)).s = 0
           /\ \E i \in 1..8 :
                  InConfig(weight_config, ComponentKeys(player_type)[i])
        THEN {"raise", "numpy"}
        ELSE {"raise"}

\* the weights emptied before they are reported
MssResultNoWeights(mss, components, weight_config) ==
    [exc |-> "",
     mss |-> mss,
     details |-> [mss_available |-> TRUE,
                  mss_score |-> mss,
                  components |-> components,
                  weights |-> <<>>]]

\* return mss, {'mss_available': True, 'mss_score': mss, ...}
MssResult(mss, components, weight_config) ==
    [exc |-> "",
     mss |-> mss,
     details |-> [mss_available |-> TRUE,
                  mss_score |-> mss,
                  components |-> components,
                  weights |-> weight_config]]

\* the score taken from the magnitude of the weighted average
MssOfMagnitude(components, weight_config, total_weight, weighted_sum, zero_total) ==
    IF total_weight.s = 0
    THEN IF zero_total = "raise" THEN [exc |-> "ZeroDivisionError"]
         ELSE MssResult(FNonFinite(weighted_sum.s), components, weight_config)
    ELSE MssResult(FAdd(FInt(50),
                        FMul(FDiv([weighted_sum EXCEPT !.s = @ * @], total_weight),
                             FInt(50))),
                   components, weight_config)

\* mss = 50 + (weighted_sum / total_weight) * 50
Mss(components, weight_config, total_weight, weighted_sum, zero_total) ==
    IF total_weight.s = 0
    THEN IF zero_total = "raise" THEN [exc |-> "ZeroDivisionError"]
         ELSE MssResult(FNonFinite(weighted_sum.s), components, weight_config)
    ELSE MssResult(FAdd(FInt(50),
                        FMul(FDiv(weighted_sum, total_weight), FInt(50))),
                   components, weight_config)

\* the weighted average of the components, which are all computed before
\* the loop over them starts
Score(player_type, components, weight_config, zero_total) ==
    Then(components,
         Mss(components, weight_config,
             TotalWeight(weight_config, Len(weight_config)),
             WeightedSum(components, ComponentKeys(player_type), weight_config, 8),
             zero_total))

\* the zero total weight noticed before the availability of the comparison
ScoreComparisonLate(self, other_stats, weight_config, comparison, zero_total) ==
    IF TotalWeight(weight_config, Len(weight_config)).s = 0
    THEN [exc |-> "ZeroDivisionError"]
    ELSE IF ~comparison.comparison_available
    THEN MssResult(FInt(50), DefaultComponents(self.player_type), weight_config)
    ELSE Score(self.player_type,
               IF self.player_type = "batter"
               THEN BatterComponents(self, other_stats, comparison)
               ELSE PitcherComponents(self, other_stats, comparison),
               weight_config, zero_total)

ScoreComparison(self, other_stats, weight_config, comparison, zero_total) ==
    IF ~comparison.comparison_available
    THEN MssResult(FInt(50), DefaultComponents(self.player_type), weight_config)
    ELSE Score(self.player_type,
               IF self.player_type = "batter"
               THEN BatterComponents(self, other_stats, comparison)
               ELSE PitcherComponents(self, other_stats, comparison),
               weight_config, zero_total)

\* calculate_mss(self, other_stats, weight_config) -> [exc, mss, details];
\* zero_total is the outcome taken if total_weight is 0
calculate_mss(self, other_stats, weight_config_arg, zero_total) ==
    ScoreComparison(self, other_stats,
                    IF weight_config_arg = None
                    THEN DefaultWeights(self.player_type)
                    ELSE weight_config_arg[1],
                    compare_to(self, other_stats), zero_total)

(***************************************************************************)
(* The program state.  snapshot[slot] is <<>> until the constructor has    *)
(* been called for the slot, then <<[exc, obj]>>: the PlayerStats object   *)
(* or the exception that left the constructor.  ret is the last method     *)
(* call and what it returned or raised.                                    *)
(***************************************************************************)
VARIABLES snapshot, ret

vars == <<snapshot, ret>>

NoCall == [op |-> "none"]

Built(slot) == snapshot[slot] # <<>> /\ snapshot[slot][1].exc = ""

BuiltSlots == {slot \in DOMAIN snapshot : Built(slot)}

Obj(slot) == snapshot[slot][1].obj

\* pre_stats, post_stats of calculate_momentum_shift_score
InitPair ==
    /\ snapshot = [slot \in {"pre_stats", "post_stats"} |-> <<>>]
    /\ ret = NoCall

\* snapshot[slot] = PlayerStats(...) with arguments drawn from inputs
ConstructInto(slot, inputs) ==
    \E a \in inputs :
        /\ ret = NoCall
        /\ snapshot[slot] = <<>>
        /\ snapshot' = [snapshot EXCEPT ![slot] = <<PlayerStats(a)>>]
        /\ UNCHANGED ret

\* any snapshot of the caller is constructed
Construct(inputs) == \E slot \in DOMAIN snapshot : ConstructInto(slot, inputs)

\* self.get_summary()
GetSummary ==
    \E self \in BuiltSlots :
        /\ ret = NoCall
        /\ ret' = [op |-> "get_summary", self |-> self,
                   result |-> [exc |-> "", value |-> get_summary(Obj(self))]]
        /\ UNCHANGED snapshot

\* self.compare_to(other_stats)
CompareTo ==
    \E self \in BuiltSlots, other \in BuiltSlots :
        /\ ret = NoCall
        /\ ret' = [op |-> "compare_to", self |-> self, other |-> other,
                   result |-> [exc |-> "",
                               value |-> compare_to(Obj(self), Obj(other))]]
        /\ UNCHANGED snapshot

\* self.calculate_mss(other_stats, weight_config) with weight_config drawn
\* from configs
CalculateMss(configs) ==
    /\ ret = NoCall
    /\ \E self \in BuiltSlots, other \in BuiltSlots, weight_config \in configs :
        \E zero_total \in ZeroTotalOutcomes(Obj(self).player_type, weight_config) :
            /\ ret' = [op |-> "calculate_mss", self |-> self, other |-> other,
                       weight_config |-> weight_config,
                       result |-> calculate_mss(Obj(self), Obj(other),
                                                weight_config, zero_total)]
            /\ UNCHANGED snapshot

(***************************************************************************)
(* Inputs: record sets as the caller passes them.                          *)
(***************************************************************************)
\* one pitch: the cells given in f, every other cell missing
Row(f) == [c \in Columns |-> IF c \in DOMAIN f THEN <<f[c]>> ELSE <<>>]

\* n equal pitches
Rows(n, f) == [n |-> n, r |-> Row(f)]

\* the record set with the columns cols and the given groups of pitches
DataFrame(cols, groups) ==
    LET kept == SelectSeq(groups, LAMBDA g : g.n > 0)
    IN  [cols |-> cols,
         rows |-> [i \in DOMAIN kept |->
                      [n |-> kept[i].n,
                       r |-> [c \in Columns |->
                                 IF c \in cols THEN kept[i].r[c] ELSE <<>>]]]]

Args(stats_df, player_type, start_date, end_date) ==
    [player_name |-> "player", player_id |-> 1, stats_df |-> stats_df,
     start_date |-> start_date, end_date |-> end_date,
     player_type |-> player_type]

\* a single with a runner on second, hit hard
SingleRow ==
    [events |-> "single", description |-> "hit_into_play",
     bb_type |-> "line_drive", pitch_type |-> "FF", launch_speed |-> 100,
     launch_angle |-> 15, hit_distance_sc |-> 250, release_speed |-> 95,
     release_spin_rate |-> 2300, balls |-> 1, strikes |-> 0, on_2b |-> 7,
     inning |-> 2, at_bat_number |-> 1, runs_scored_on_play |-> 1,
     woba_value |-> 1, woba_denom |-> 1]

\* a ground out with the bases empty
OutRow ==
    [events |-> "field_out", description |-> "hit_into_play",
     bb_type |-> "ground_ball", pitch_type |-> "SL", launch_speed |-> 85,
     launch_angle |-> -5, hit_distance_sc |-> 40, release_speed |-> 86,
     release_spin_rate |-> 2500, balls |-> 0, strikes |-> 1, inning |-> 5,
     at_bat_number |-> 2, runs_scored_on_play |-> 0, woba_value |-> 0,
     woba_denom |-> 1]

\* a ground out on which a run scores, runner on third
RunOutRow ==
    [events |-> "field_out", description |-> "hit_into_play",
     bb_type |-> "ground_ball", pitch_type |-> "SL", launch_speed |-> 85,
     launch_angle |-> -5, hit_distance_sc |-> 40, release_speed |-> 86,
     release_spin_rate |-> 2500, balls |-> 2, strikes |-> 2, on_3b |-> 9,
     inning |-> 8, at_bat_number |-> 3, runs_scored_on_play |-> 1,
     woba_value |-> 0, woba_denom |-> 1]

HomeRunRow ==
    [events |-> "home_run", description |-> "hit_into_play",
     bb_type |-> "fly_ball", pitch_type |-> "FF", launch_speed |-> 108,
     launch_angle |-> 28, hit_distance_sc |-> 420, release_speed |-> 96,
     release_spin_rate |-> 2250, balls |-> 2, strikes |-> 1, on_1b |-> 5,
     inning |-> 7, at_bat_number |-> 4, runs_scored_on_play |-> 2,
     woba_value |-> 2, woba_denom |-> 1]

StrikeoutRow ==
    [events |-> "strikeout", description |-> "swinging_strike",
     pitch_type |-> "SL", release_speed |-> 87, release_spin_rate |-> 2600,
     balls |-> 1, strikes |-> 2, on_2b |-> 7, inning |-> 9,
     at_bat_number |-> 5, runs_scored_on_play |-> 0, woba_value |-> 0,
     woba_denom |-> 1]

WalkRow ==
    [events |-> "walk", description |-> "ball", pitch_type |-> "CH",
     release_speed |-> 84, release_spin_rate |-> 1800, balls |-> 3,
     strikes |-> 1, inning |-> 1, at_bat_number |-> 6,
     runs_scored_on_play |-> 0, woba_value |-> 1, woba_denom |-> 1]

\* a pitch that ends no plate appearance
TakenRow ==
    [description |-> "called_strike", pitch_type |-> "FF",
     release_speed |-> 94, release_spin_rate |-> 2200, balls |-> 0,
     strikes |-> 0, inning |-> 4, at_bat_number |-> 7]

\* hits singles and outs ground outs, every column present
HitsAndOuts(hits, outs) ==
    DataFrame(Columns, <<Rows(hits, SingleRow), Rows(outs, OutRow)>>)

\* outs ground outs, runs of them with a run scoring
OutsAndRuns(outs, runs) ==
    DataFrame(Columns, <<Rows(outs - runs, OutRow), Rows(runs, RunOutRow)>>)

\* a mixed line: home runs, strikeouts, walks, singles and outs
MixedLine(hr, k, bb) ==
    DataFrame(Columns,
              <<Rows(hr, HomeRunRow), Rows(k, StrikeoutRow), Rows(bb, WalkRow),
                Rows(2, SingleRow), Rows(4, OutRow), Rows(3, TakenRow)>>)

\* only the outcome and the velocity are recorded
SparseLine(hits, k, bb) ==
    DataFrame({"events", "release_speed"},
              <<Rows(hits, SingleRow), Rows(k, StrikeoutRow), Rows(bb, WalkRow)>>)

(***************************************************************************)
(* Scoring: two snapshots, calculate_mss under several configurations.     *)
(***************************************************************************)
Item(k, w) == [k |-> k, w |-> w]

\* {}: a dict with no weight
EmptyConfig == <<>>

\* non-negative weights of two components both roles have, total 1
SharedConfig ==
    <<Item("barrel_rate", FLit(75, 100)), Item("situational", FLit(25, 100))>>

\* SharedConfig and a weight whose key names no component
BogusConfig == SharedConfig \o <<Item("clutch", FLit(5, 10))>>

\* non-negative weights whose sum is 0
ZeroConfig == <<Item("barrel_rate", FZero), Item("situational", FZero)>>

\* weights of both signs whose sum is 0
SignedConfig == <<Item("barrel_rate", FInt(1)), Item("situational", FInt(-1))>>

ScoreConfigs ==
    {None, <<EmptyConfig>>, <<SharedConfig>>, <<BogusConfig>>, <<ZeroConfig>>,
     <<SignedConfig>>}

ScoreInputs ==
    {Args(HitsAndOuts(25, 75), "batter", "2023-04-01", "2023-04-30"),
     Args(HitsAndOuts(30, 70), "batter", "2023-05-01", "2023-05-31"),
     Args(MixedLine(2, 3, 1), "Batter", "2023-06-01", "2023-06-30"),
     Args(OutsAndRuns(54, 9), "pitcher", "2023-04-01", "2023-04-30"),
     Args(OutsAndRuns(54, 7), "pitcher", "2023-05-01", "2023-05-31"),
     Args(SparseLine(3, 5, 2), "PITCHER", "2023-06-01", "2023-06-30"),
     Args(EmptyFrame, "batter", "2023-07-01", "2023-07-31"),
     Args(HitsAndOuts(1, 1), "umpire", "2023-07-01", "2023-07-31")}

NextScore ==
    \/ Construct(ScoreInputs)
    \/ GetSummary
    \/ CompareTo
    \/ CalculateMss(ScoreConfigs)

SpecScore == InitPair /\ [][NextScore]_vars

(***************************************************************************)
(* Aggregation: one snapshot, built from record sets that lack columns     *)
(* and from record sets of every small combination of outcomes.            *)
(***************************************************************************)
MaxAbsent == 1

MaxCount == 2

InitSingle ==
    /\ snapshot = [slot \in {"pre_stats"} |-> <<>>]
    /\ ret = NoCall

SacFlyRow ==
    [events |-> "sac_fly", description |-> "hit_into_play",
     bb_type |-> "fly_ball", pitch_type |-> "CH", launch_speed |-> 92,
     launch_angle |-> 35, hit_distance_sc |-> 310, release_speed |-> 85,
     release_spin_rate |-> 1700, balls |-> 1, strikes |-> 1, on_3b |-> 9,
     inning |-> 6, at_bat_number |-> 8, runs_scored_on_play |-> 1,
     woba_value |-> 0, woba_denom |-> 1]

\* the subsets of S with at most n elements
RECURSIVE SubsetsUpTo(_, _)
SubsetsUpTo(S, n) ==
    IF n = 0 THEN {{}}
    ELSE SubsetsUpTo(S, n - 1)
         \cup {T \cup {c} : T \in SubsetsUpTo(S, n - 1), c \in S}

\* the columns a record set carries: all but at most MaxAbsent of them, or
\* at most MaxAbsent of them alone
ColumnSets ==
    {Columns \ T : T \in SubsetsUpTo(Columns, MaxAbsent)}
    \cup (SubsetsUpTo(Columns, MaxAbsent) \ {{}})

\* the pitches of MixedLine(1, 2, 1), restricted to the columns cols
PartialLine(cols) ==
    DataFrame(cols,
              <<Rows(1, HomeRunRow), Rows(2, StrikeoutRow), Rows(1, WalkRow),
                Rows(2, SingleRow), Rows(4, OutRow), Rows(3, TakenRow)>>)

\* hits singles, bb walks, k strikeouts and sf sacrifice flies
OutcomeLine(hits, bb, k, sf) ==
    DataFrame(Columns,
              <<Rows(hits, SingleRow), Rows(bb, WalkRow), Rows(k, StrikeoutRow),
                Rows(sf, SacFlyRow)>>)

\* a double hit at 99 mph and 20 degrees
BarrelRow ==
    [events |-> "double", description |-> "hit_into_play",
     bb_type |-> "line_drive", pitch_type |-> "FF", launch_speed |-> 99,
     launch_angle |-> 20, hit_distance_sc |-> 330, release_speed |-> 95,
     release_spin_rate |-> 2300, balls |-> 2, strikes |-> 0, inning |-> 3,
     at_bat_number |-> 9, runs_scored_on_play |-> 0, woba_value |-> 1,
     woba_denom |-> 1]

\* a home run at the lowest velocity and the highest angle of a barrel
EdgeRow ==
    [events |-> "home_run", description |-> "hit_into_play",
     bb_type |-> "fly_ball", pitch_type |-> "FF", launch_speed |-> 98,
     launch_angle |-> 32, hit_distance_sc |-> 380, release_speed |-> 93,
     release_spin_rate |-> 2200, balls |-> 0, strikes |-> 0, inning |-> 4,
     at_bat_number |-> 10, runs_scored_on_play |-> 1, woba_value |-> 2,
     woba_denom |-> 1]

\* a fly out hit hard at 35 degrees
SkiedRow ==
    [events |-> "field_out", description |-> "hit_into_play",
     bb_type |-> "fly_ball", pitch_type |-> "CU", launch_speed |-> 105,
     launch_angle |-> 35, hit_distance_sc |-> 350, release_speed |-> 80,
     release_spin_rate |-> 2700, balls |-> 1, strikes |-> 2, inning |-> 5,
     at_bat_number |-> 11, runs_scored_on_play |-> 0, woba_value |-> 0,
     woba_denom |-> 1]

\* a double play on a hard ground ball, runner on first
GroundedRow ==
    [events |-> "grounded_into_double_play", description |-> "hit_into_play",
     bb_type |-> "ground_ball", pitch_type |-> "SI", launch_speed |-> 96,
     launch_angle |-> -10, hit_distance_sc |-> 20, release_speed |-> 92,
     release_spin_rate |-> 2100, balls |-> 0, strikes |-> 1, on_1b |-> 5,
     inning |-> 6, at_bat_number |-> 12, runs_scored_on_play |-> 0,
     woba_value |-> 0, woba_denom |-> 1]

\* batted balls only: doubles, home runs, fly outs and double plays
ContactLine(doubles, hr, outs, dp) ==
    DataFrame(Columns,
              <<Rows(doubles, BarrelRow), Rows(hr, EdgeRow), Rows(outs, SkiedRow),
                Rows(dp, GroundedRow)>>)

\* a ball taken, recorded without the number of its at-bat
LooseRow ==
    [description |-> "ball", pitch_type |-> "CH", release_speed |-> 84,
     release_spin_rate |-> 1800, balls |-> 1, strikes |-> 0, inning |-> 1]

\* n pitches, none of which ends a plate appearance
IdleLine(n) == DataFrame(Columns, <<Rows(n, LooseRow)>>)

\* the same pitches in a frame that has no at_bat_number column
UncountedLine(n) ==
    DataFrame(Columns \ {"at_bat_number"}, <<Rows(n, LooseRow)>>)

AggFrames ==
    {PartialLine(cols) : cols \in ColumnSets}
    \cup {IdleLine(n) : n \in 1..MaxCount}
    \cup {UncountedLine(n) : n \in 1..MaxCount}
    \cup {OutcomeLine(hits, bb, k, sf) :
             hits \in 0..MaxCount, bb \in 0..MaxCount, k \in 0..MaxCount,
             sf \in 0..MaxCount}
    \cup {ContactLine(doubles, hr, outs, dp) :
             doubles \in 0..MaxCount, hr \in 0..MaxCount, outs \in 0..MaxCount,
             dp \in 0..MaxCount}

AggInputs ==
    {Args(stats_df, player_type, "2023-04-01", "2023-04-30") :
        stats_df \in AggFrames, player_type \in {"batter", "pitcher"}}

NextAgg ==
    \/ Construct(AggInputs)
    \/ GetSummary

SpecAgg == InitSingle /\ [][NextAgg]_vars

(***************************************************************************)
(* Monotonicity: one snapshot before and two after it, which differ from   *)
(* each other in one tracked metric.                                       *)
(***************************************************************************)
MaxStep == 1

InitTriple ==
    /\ snapshot = [slot \in {"pre_stats", "post_stats", "alt_stats"} |-> <<>>]
    /\ ret = NoCall

\* a strikeout turned into an out in play without Statcast data
PlainOutRow == [StrikeoutRow EXCEPT !.events = "field_out"]

\* a ground out on which a run scores
ScoringOutRow == [OutRow EXCEPT !.runs_scored_on_play = 1]

\* 100 plate appearances: 10 + k strikeouts, the singles hit at 90 + v mph
BatterLine(k, v) ==
    DataFrame(Columns,
              <<Rows(20, [SingleRow EXCEPT !.launch_speed = 90 + v]),
                Rows(60, OutRow), Rows(10 + k, StrikeoutRow),
                Rows(10 - k, PlainOutRow)>>)

\* 54 outs: 3 + r of them with a run scoring, half of the pitches thrown
\* at 86 + v mph
PitcherLine(r, v) ==
    DataFrame(Columns,
              <<Rows(27, [OutRow EXCEPT !.release_speed = 86 + v]),
                Rows(24 - r, OutRow), Rows(3 + r, ScoringOutRow)>>)

\* the period before: close to the lines after it, so that no change
\* reaches its scale
BatterBefore ==
    DataFrame(Columns,
              <<Rows(22, [SingleRow EXCEPT !.launch_speed = 91]),
                Rows(58, OutRow), Rows(12, StrikeoutRow), Rows(8, PlainOutRow)>>)

PitcherBefore ==
    DataFrame(Columns, <<Rows(50, OutRow), Rows(4, ScoringOutRow)>>)

\* the lines that differ from line (0, 0) in one metric: up to MaxStep
\* more strikeouts or runs, or one mph more
Steps == {<<n, 0>> : n \in 0..MaxStep} \cup {<<0, 1>>}

MonoBefore ==
    {Args(BatterBefore, "batter", "2023-04-01", "2023-04-30"),
     Args(PitcherBefore, "pitcher", "2023-04-01", "2023-04-30")}

MonoAfter ==
    {Args(BatterLine(st[1], st[2]), "batter", "2023-05-01", "2023-05-31") :
        st \in Steps}
    \cup {Args(PitcherLine(st[1], st[2]), "pitcher", "2023-05-01", "2023-05-31") :
             st \in Steps}

\* non-negative weights of the metrics the lines differ in, total 3.75
MonoConfig ==
    <<Item("strikeout_rate", FInt(1)), Item("launch_speed", FLit(5, 10)),
      Item("era", FInt(2)), Item("velocity", FLit(25, 100))>>

MonoConfigs == {None, <<MonoConfig>>}

NextMono ==
    \/ ConstructInto("pre_stats", MonoBefore)
    \/ ConstructInto("post_stats", MonoAfter)
    \/ ConstructInto("alt_stats", MonoAfter)
    \/ CalculateMss(MonoConfigs)

SpecMono == InitTriple /\ [][NextMono]_vars

(***************************************************************************)
(* Roles and empty record sets: two snapshots of any role, built from      *)
(* record sets with and without rows, then summarised, compared, scored.   *)
(***************************************************************************)
\* the columns of a fetch that found no pitch
NoRows == DataFrame(Columns, <<>>)

RoleFrames ==
    {EmptyFrame, NoRows, HitsAndOuts(1, 2), SparseLine(1, 1, 0), OutsAndRuns(3, 1),
     MixedLine(1, 5, 1), MixedLine(0, 30, 0)}

RoleInputs ==
    {Args(stats_df, player_type, "2023-04-01", "2023-04-30") :
        stats_df \in RoleFrames, player_type \in {"batter", "Pitcher", "umpire"}}

NextRole ==
    \/ Construct(RoleInputs)
    \/ GetSummary
    \/ CompareTo
    \/ CalculateMss({None})

SpecRole == InitPair /\ [][NextRole]_vars

(***************************************************************************)
(* calculate_momentum_shift_score.  The ID table mlbIDs maps a name to     *)
(* <<id>>, or to <<>> when the name is not in it; the data source answers  *)
(* each of the four fetches with a record set or with an exception.  A     *)
(* date is [year, month, day].  ret holds the arguments, the answers of    *)
(* the data source, the position in the function and its results.         *)
(***************************************************************************)
DaysIn(year, month) ==
    IF month = 2
    THEN (IF year % 4 = 0 /\ (year % 100 # 0 \/ year % 400 = 0) THEN 29 ELSE 28)
    ELSE IF month \in {4, 6, 9, 11} THEN 30 ELSE 31

\* date + timedelta(days=n)
RECURSIVE AddDays(_, _)
AddDays(date, n) ==
    IF date.day + n <= DaysIn(date.year, date.month)
    THEN [date EXCEPT !.day = date.day + n]
    ELSE AddDays([year |-> IF date.month = 12 THEN date.year + 1 ELSE date.year,
                  month |-> IF date.month = 12 THEN 1 ELSE date.month + 1,
                  day |-> 1],
                 n - (DaysIn(date.year, date.month) - date.day + 1))

\* PlayerStats(player_name, None, pd.DataFrame(), None, None, player_type)
EmptyStats(player_name, player_type) ==
    PlayerStats([player_name |-> player_name, player_id |-> None,
                 stats_df |-> EmptyFrame, start_date |-> None,
                 end_date |-> None, player_type |-> player_type]).obj

\* the body of the try: the ID lookup, the fetch, the construction; the
\* first exception ends it
TryStats(player_name, player_type, id, fetched, start_date, end_date) ==
    IF id = <<>> THEN [exc |-> "IndexError"]
    ELSE IF fetched.exc # "" THEN [exc |-> fetched.exc]
    ELSE PlayerStats([player_name |-> player_name, player_id |-> id[1],
                      stats_df |-> fetched.stats, start_date |-> start_date,
                      end_date |-> end_date, player_type |-> player_type])

\* except Exception: an empty snapshot of the same role
ExceptEmpty(tried, player_name, player_type) ==
    IF tried.exc # "" THEN EmptyStats(player_name, player_type) ELSE tried.obj

\* moment_year: game_year, or the year of game_date
MomentYear(moment_row) ==
    IF "game_year" \in DOMAIN moment_row THEN moment_row.game_year
    ELSE moment_row.game_date.year

get_player_stats(moment_row, player_col, player_type, mlbIDs, fetched) ==
    ExceptEmpty(TryStats(moment_row[player_col], player_type,
                         mlbIDs[moment_row[player_col]], fetched,
                         [year |-> MomentYear(moment_row) - 5, month |-> 1, day |-> 1],
                         moment_row.game_date),
                moment_row[player_col], player_type)

get_post_moment_stats(moment_row, player_col, player_type, days_after, mlbIDs, fetched) ==
    ExceptEmpty(TryStats(moment_row[player_col], player_type,
                         mlbIDs[moment_row[player_col]], fetched,
                         moment_row.game_date,
                         AddDays(moment_row.game_date, days_after)),
                moment_row[player_col], player_type)

\* results before the first fetch
InitialResults(moment_row) ==
    [moment_date |-> moment_row.game_date,
     moment_type |-> moment_row.events,
     wpa_change |-> IF "delta_home_win_exp_abs" \in DOMAIN moment_row
                    THEN <<moment_row.delta_home_win_exp_abs>> ELSE None,
     batter |-> [name |-> moment_row.batter_name, mss |-> None, details |-> None],
     pitcher |-> [name |-> moment_row.pitcher_name, mss |-> None, details |-> None]]

\* an empty batter snapshot, whatever the role
DefaultStatsOfBatter(player_type) == EmptyStats("", "batter")

\* PlayerStats('', None, pd.DataFrame(), None, None, player_type)
DefaultStats(player_type) == EmptyStats("", player_type)

\* the two snapshots calculate_mss is called on: pre and post in the if
\* branch, two empty snapshots of the role in the else branch
ScoredPair(pre, post, empty) ==
    IF pre.data_available /\ post.data_available THEN <<pre, post>>
    ELSE <<empty, empty>>

\* pair[1].calculate_mss(pair[2])
MssOfPair(pair) == calculate_mss(pair[1], pair[2], None, "raise")

\* results[player_type] after the if / else on the two snapshots; scored
\* is the outcome of calculate_mss on the pair of the branch taken
RoleResult(entry, available, scored) ==
    IF available
    THEN [entry EXCEPT !.mss = <<scored.mss>>, !.details = <<scored.details>>]
    ELSE [entry EXCEPT !.mss = <<FInt(50)>>, !.details = <<scored.details>>]

MomentSlots == {"batter_pre", "batter_post", "pitcher_pre", "pitcher_post"}

\* the statements of calculate_momentum_shift_score, in order
MomentSteps ==
    <<"batter_pre", "batter_post", "batter", "pitcher_pre", "pitcher_post",
      "pitcher", "return">>

\* the statement after step pc
NextStep(pc) ==
    MomentSteps[(CHOOSE i \in DOMAIN MomentSteps : MomentSteps[i] = pc) + 1]

PlayerCol(player_type) ==
    IF player_type = "batter" THEN "batter_name" ELSE "pitcher_name"

\* the call with its arguments and the answers the data source will give,
\* before its first statement
MomentCall(moment_row, days_after, mlbIDs, source) ==
    [op |-> "calculate_momentum_shift_score", pc |-> "batter_pre", exc |-> "",
     moment_row |-> moment_row, days_after |-> days_after, mlbIDs |-> mlbIDs,
     source |-> source, results |-> InitialResults(moment_row)]

\* batter_pre = get_player_stats(...), pitcher_pre = get_player_stats(...)
GetPlayerStats(player_type) ==
    LET slot == player_type \o "_pre"
    IN  /\ ret.op = "calculate_momentum_shift_score"
        /\ ret.pc = slot
        /\ snapshot' =
               [snapshot EXCEPT ![slot] =
                   <<[exc |-> "",
                      obj |-> get_player_stats(ret.moment_row,
                                               PlayerCol(player_type), player_type,
                                               ret.mlbIDs, ret.source[slot])]>>]
        /\ ret' = [ret EXCEPT !.pc = NextStep(slot)]

\* batter_post = get_post_moment_stats(...), pitcher_post likewise
GetPostMomentStats(player_type) ==
    LET slot == player_type \o "_post"
    IN  /\ ret.op = "calculate_momentum_shift_score"
        /\ ret.pc = slot
        /\ snapshot' =
               [snapshot EXCEPT ![slot] =
                   <<[exc |-> "",
                      obj |-> get_post_moment_stats(ret.moment_row,
                                                    PlayerCol(player_type),
                                                    player_type, ret.days_after,
                                                    ret.mlbIDs, ret.source[slot])]>>]
        /\ ret' = [ret EXCEPT !.pc = NextStep(slot)]

\* ret after the if / else: an exception of calculate_mss leaves the
\* function
AfterScore(player_type, available, scored) ==
    IF scored.exc # ""
    THEN [ret EXCEPT !.pc = "raised", !.exc = scored.exc]
    ELSE [ret EXCEPT !.pc = NextStep(player_type),
                     !.results[player_type] =
                         RoleResult(ret.results[player_type], available, scored)]

\* the if / else that fills results[player_type]
ScoreRole(player_type) ==
    /\ ret.op = "calculate_momentum_shift_score"
    /\ ret.pc = player_type
    /\ ret' = AfterScore(player_type,
                         /\ Obj(player_type \o "_pre").data_available
                         /\ Obj(player_type \o "_post").data_available,
                         MssOfPair(ScoredPair(Obj(player_type \o "_pre"),
                                              Obj(player_type \o "_post"),
                                              DefaultStats(player_type))))
    /\ UNCHANGED snapshot

\* return results
ReturnResults ==
    /\ ret.op = "calculate_momentum_shift_score"
    /\ ret.pc = "return"
    /\ ret' = [ret EXCEPT !.pc = "done"]
    /\ UNCHANGED snapshot

\* a home run on 15 June 2023
HomeRunMoment ==
    [game_date |-> [year |-> 2023, month |-> 6, day |-> 15],
     game_year |-> 2023, events |-> "home_run",
     batter_name |-> "the batter", pitcher_name |-> "the pitcher",
     delta_home_win_exp_abs |-> 40]

\* the ID tables: each of the two names is in the table or not
IdTables ==
    [{"the batter", "the pitcher"} -> {<<>>, <<7>>}]

\* the answers to a fetch: an exception, no pitch, the pitches of the
\* period, or pitches recorded without their description
Answers(good) ==
    {[exc |-> "HTTPError"],
     [exc |-> "", stats |-> NoRows],
     [exc |-> "", stats |-> good],
     [exc |-> "", stats |-> PartialLine(Columns \ {"description"})]}

\* the answers to the four fetches; a player whose name is not in the
\* table is never fetched
Sources(mlbIDs) ==
    {source \in [batter_pre : Answers(HitsAndOuts(25, 75)),
                 batter_post : Answers(HitsAndOuts(30, 70)),
                 pitcher_pre : Answers(OutsAndRuns(54, 9)),
                 pitcher_post : Answers(OutsAndRuns(54, 7))] :
        /\ mlbIDs["the batter"] = <<>> =>
               source.batter_pre.exc # "" /\ source.batter_post.exc # ""
        /\ mlbIDs["the pitcher"] = <<>> =>
               source.pitcher_pre.exc # "" /\ source.pitcher_post.exc # ""}

\* calculate_momentum_shift_score(moment_row, days_after=30, mlbIDs=mlbIDs)
InitMoment ==
    /\ snapshot = [slot \in MomentSlots |-> <<>>]
    /\ \E mlbIDs \in IdTables :
           \E source \in Sources(mlbIDs) :
               ret = MomentCall(HomeRunMoment, 30, mlbIDs, source)

NextMoment ==
    \/ \E player_type \in {"batter", "pitcher"} : GetPlayerStats(player_type)
    \/ \E player_type \in {"batter", "pitcher"} : GetPostMomentStats(player_type)
    \/ \E player_type \in {"batter", "pitcher"} : ScoreRole(player_type)
    \/ ReturnResults

SpecMoment == InitMoment /\ [][NextMoment]_vars

(***************************************************************************)
(* Repeated calls: a caller builds two snapshots and calls get_summary,    *)
(* compare_to and calculate_mss on them several times.  ret is the log of  *)
(* the calls: each with its result and the snapshots as they were when it  *)
(* was made.  The weights reported in the details are the caller's dict    *)
(* itself, as the call left it.                                            *)
(***************************************************************************)
MaxCalls == 2

Session(log) == [op |-> "session", log |-> log]

InitSession ==
    /\ snapshot = [slot \in {"pre_stats", "post_stats"} |-> <<>>]
    /\ ret = Session(<<>>)

\* snapshot[slot] = PlayerStats(...), between the calls
BuildInSession(inputs) ==
    \E slot \in DOMAIN snapshot, a \in inputs :
        /\ ret.op = "session"
        /\ snapshot[slot] = <<>>
        /\ snapshot' = [snapshot EXCEPT ![slot] = <<PlayerStats(a)>>]
        /\ UNCHANGED ret

\* one more call in the log; none of the three methods assigns an
\* attribute of self or of other_stats
LogCall(op, self, other, weight_config, result) ==
    /\ ret.op = "session"
    /\ Len(ret.log) < MaxCalls
    /\ ret' = Session(Append(ret.log,
                             [call |-> [op |-> op, self |-> self, other |-> other,
                                        weight_config |-> weight_config],
                              result |-> result,
                              seen |-> snapshot]))
    /\ UNCHANGED snapshot

GetSummaryAgain ==
    \E self \in BuiltSlots :
        LogCall("get_summary", self, self, None,
                [exc |-> "", value |-> get_summary(Obj(self))])

CompareToAgain ==
    \E other \in BuiltSlots :
        /\ Built("pre_stats")
        /\ LogCall("compare_to", "pre_stats", other, None,
                   [exc |-> "", value |-> compare_to(Obj("pre_stats"), Obj(other))])

CalculateMssAgain(configs) ==
    \E other \in BuiltSlots, weight_config \in configs :
        /\ Built("pre_stats")
        /\ LogCall("calculate_mss", "pre_stats", other, weight_config,
                   calculate_mss(Obj("pre_stats"), Obj(other), weight_config,
                                 "raise"))

SessionInputs ==
    {Args(HitsAndOuts(25, 75), "batter", "2023-04-01", "2023-04-30"),
     Args(HitsAndOuts(30, 70), "batter", "2023-05-01", "2023-05-31"),
     Args(EmptyFrame, "batter", "2023-07-01", "2023-07-31")}

\* the default table and a table of the caller, of positive total
SessionConfigs == {None, <<SharedConfig>>}

NextSession ==
    \/ BuildInSession(SessionInputs)
    \/ GetSummaryAgain
    \/ CompareToAgain
    \/ CalculateMssAgain(SessionConfigs)

SpecSession == InitSession /\ [][NextSession]_vars

(***************************************************************************)
(* Properties of calculate_mss and compare_to, checked under SpecScore.    *)
(***************************************************************************)
MssCall == ret.op = "calculate_mss"

CompareCall == ret.op = "compare_to"

\* the snapshots of the last call
Before == Obj(ret.self)

After == Obj(ret.other)

ComparisonUnavailable(before, after) ==
    \/ ~before.data_available
    \/ ~after.data_available
    \/ before.player_type # after.player_type

BatterKeys ==
    {"batting_avg", "on_base_pct", "slug_pct", "home_runs_rate",
     "strikeout_rate", "barrel_rate", "launch_speed", "situational"}

PitcherKeys ==
    {"era", "whip", "k_per_9", "bb_per_9", "hr_per_9", "barrel_rate",
     "velocity", "situational"}

RoleKeys(role) == IF role = "batter" THEN BatterKeys ELSE PitcherKeys

\* C1: when the comparison is unavailable (a snapshot without data, or two
\* roles), calculate_mss returns without raising, the score is exactly
\* 50.0 and the components are the eight keys of the before snapshot's
\* role, each 0, whatever the weight configuration
C1_UnavailableIsNeutral ==
    (MssCall /\ ComparisonUnavailable(Before, After)) =>
        /\ ret.result.exc = ""
        /\ ret.result.mss = FInt(50)
        /\ ret.result.details.mss_score = FInt(50)
        /\ ret.result.details.components =
               [k \in RoleKeys(Before.player_type) |-> FZero]

\* two snapshots with data of different roles, scored under {}
C1_Witness ==
    /\ MssCall
    /\ Before.data_available /\ After.data_available
    /\ Before.player_type = "batter" /\ After.player_type = "pitcher"
    /\ ret.weight_config = <<EmptyConfig>>
    /\ ret.result.exc = ""
    /\ ret.result.mss = FInt(50)

\* every weight of the configuration is >= 0 (the default weights are)
NonNegative(weight_config_arg) ==
    \/ weight_config_arg = None
    \/ \A i \in DOMAIN weight_config_arg[1] : weight_config_arg[1][i].w.s >= 0

InRange(x, lo, hi) == IsFinite(x) /\ FLe(lo, x) /\ FLe(x, hi)

\* C2: for two snapshots with data of one role and weights that are all
\* >= 0, calculate_mss returns normally and 0 <= score <= 100
C2_ScoreInRange ==
    (MssCall /\ ~ComparisonUnavailable(Before, After)
     /\ NonNegative(ret.weight_config)) =>
        /\ ret.result.exc = ""
        /\ InRange(ret.result.mss, FZero, FInt(100))

\* the weights of the configuration whose key is a component of the role,
\* summed in the order of the configuration
RECURSIVE PresentWeight(_, _, _)
PresentWeight(weight_config, role, n) ==
    IF n = 0 THEN FZero
    ELSE IF weight_config[n].k \in RoleKeys(role)
    THEN FAdd(PresentWeight(weight_config, role, n - 1), weight_config[n].w)
    ELSE PresentWeight(weight_config, role, n - 1)

\* the configuration calculate_mss uses for the last call
UsedConfig ==
    IF ret.weight_config = None THEN DefaultWeights(Before.player_type)
    ELSE ret.weight_config[1]

\* C3: the score is 50 + 50 * (sum of component * weight over the role's
\* components in the configuration) / (sum of the weights of those
\* components): a weight whose key names no component does not count
C3_PresentWeightsOnly ==
    (MssCall /\ ~ComparisonUnavailable(Before, After)
     /\ PresentWeight(UsedConfig, Before.player_type, Len(UsedConfig)).s # 0) =>
        /\ ret.result.exc = ""
        /\ ret.result.mss =
               FAdd(FInt(50),
                    FMul(FDiv(WeightedSum(ret.result.details.components,
                                          ComponentKeys(Before.player_type),
                                          UsedConfig, 8),
                              PresentWeight(UsedConfig, Before.player_type,
                                            Len(UsedConfig))),
                         FInt(50)))

\* C4: calculate_mss of a snapshot with data against itself gives every
\* component 0 and the score exactly 50.0
C4_SameSnapshotIsNeutral ==
    (MssCall /\ ret.self = ret.other /\ Before.data_available) =>
        /\ ret.result.exc = ""
        /\ \A k \in DOMAIN ret.result.details.components :
               ret.result.details.components[k] = FZero
        /\ ret.result.mss = FInt(50)

\* hits / at-bats rises by at least .050 from before to after, in exact
\* arithmetic on the counts
BattingAvgUp(before, after) ==
    /\ before.summary_stats.total_abs > 0
    /\ after.summary_stats.total_abs > 0
    /\ 20 * (after.summary_stats.hits * before.summary_stats.total_abs
             - before.summary_stats.hits * after.summary_stats.total_abs)
           >= before.summary_stats.total_abs * after.summary_stats.total_abs

\* C6: every component lies in [-1, 1], and a change by the component's
\* scale or more in the favorable direction gives exactly 1, in the
\* unfavorable direction exactly -1: a batting average up by .050 or more
\* gives batting_avg = 1, an ERA down by 1.0 or more gives era = 1
C6_ClampBoundary ==
    (MssCall /\ ~ComparisonUnavailable(Before, After) /\ ret.result.exc = "") =>
        /\ \A k \in DOMAIN ret.result.details.components :
               InRange(ret.result.details.components[k], FInt(-1), FInt(1))
        /\ (Before.player_type = "batter" /\ BattingAvgUp(Before, After)) =>
               ret.result.details.components.batting_avg = FInt(1)
        /\ (Before.player_type = "batter" /\ BattingAvgUp(After, Before)) =>
               ret.result.details.components.batting_avg = FInt(-1)
        /\ (Before.player_type = "pitcher"
            /\ FLe(FInt(1), FSub(Before.summary_stats.era, After.summary_stats.era))) =>
               ret.result.details.components.era = FInt(1)
        /\ (Before.player_type = "pitcher"
            /\ FLe(FInt(1), FSub(After.summary_stats.era, Before.summary_stats.era))) =>
               ret.result.details.components.era = FInt(-1)

\* C7: compare_to does not raise, and its result has comparison_available
\* false exactly when a snapshot has no data or the roles differ, true in
\* every other case
C7_CompareAvailability ==
    CompareCall =>
        /\ ret.result.exc = ""
        /\ ret.result.value.comparison_available \in BOOLEAN
        /\ ~ret.result.value.comparison_available
               <=> ComparisonUnavailable(Before, After)

\* both snapshots have data and the roles differ: unavailable
C7_Witness ==
    /\ CompareCall
    /\ Before.data_available /\ After.data_available
    /\ Before.player_type = "pitcher" /\ After.player_type = "batter"
    /\ ~ret.result.value.comparison_available

BatterMetrics ==
    {"batting_avg", "on_base_pct", "slug_pct", "ops", "home_runs", "total_abs",
     "strikeout_rate", "walk_rate", "avg_launch_speed", "avg_launch_angle",
     "barrel_rate"}

PitcherMetrics ==
    {"innings_pitched", "era", "whip", "k_per_9", "bb_per_9", "hr_per_9",
     "k_bb_ratio", "avg_velocity", "ground_ball_pct", "barrel_rate_allowed"}

\* C8: an available comparison holds, for every metric of the flattened
\* summary, the change after - before and the percentage
\* (after / before - 1) * 100, which is exactly 0 when before is 0
C8_ChangeAndPercentage ==
    (CompareCall /\ ret.result.value.comparison_available) =>
        LET before == get_summary(Before).metrics
            after == get_summary(After).metrics
            metrics == IF Before.player_type = "batter" THEN BatterMetrics
                       ELSE PitcherMetrics
        IN  /\ DOMAIN before = metrics
            /\ DOMAIN ret.result.value.change = metrics
            /\ DOMAIN ret.result.value.pct_change = metrics
            /\ \A k \in metrics :
                   /\ ret.result.value.change[k] = FSub(after[k], before[k])
                   /\ before[k] = FZero => ret.result.value.pct_change[k] = FZero
                   /\ before[k] # FZero =>
                          ret.result.value.pct_change[k] =
                              FMul(FSub(FDiv(after[k], before[k]), FInt(1)),
                                   FInt(100))

\* a metric that is 0 before and not after: the change is not 0, the
\* percentage is
C8_Witness ==
    /\ CompareCall
    /\ ret.result.value.comparison_available
    /\ \E k \in DOMAIN ret.result.value.change :
           /\ get_summary(Before).metrics[k] = FZero
           /\ ret.result.value.change[k] # FZero
           /\ ret.result.value.pct_change[k] = FZero

(***************************************************************************)
(* Properties of the aggregation, checked under SpecAgg.                   *)
(***************************************************************************)
Constructed == {slot \in DOMAIN snapshot : snapshot[slot] # <<>>}

\* the views of a snapshot with data degrade where a column is absent
Degrades(obj) ==
    LET cols == obj.raw_data.cols
    IN  /\ "bb_type" \notin cols => ~obj.batted_ball_profile.available
        /\ "pitch_type" \notin cols => ~obj.pitch_type_stats.available
        /\ (obj.player_type = "batter" /\ "events" \notin cols) =>
               /\ obj.summary_stats.batting_avg = FZero
               /\ obj.summary_stats.on_base_pct = FZero
               /\ obj.summary_stats.slug_pct = FZero
        /\ (obj.player_type = "batter" /\ "launch_speed" \notin cols) =>
               obj.summary_stats.avg_launch_speed = FZero
        /\ (obj.player_type = "batter" /\ "woba_denom" \notin cols) =>
               obj.summary_stats.woba = FZero
        /\ (obj.player_type = "pitcher" /\ "release_speed" \notin cols) =>
               obj.summary_stats.avg_velocity = FZero
        /\ (obj.player_type = "pitcher" /\ "events" \notin cols) =>
               /\ obj.summary_stats.whip = FZero
               /\ obj.summary_stats.k_per_9 = FZero
        /\ ("events" \notin cols \/ "on_2b" \notin cols) =>
               "risp" \notin DOMAIN obj.situational_stats

\* C9: for a record set with rows, whichever columns it has, the
\* construction of a batter's or a pitcher's snapshot does not raise; a
\* metric whose column is absent is 0 and a batted-ball or pitch-type view
\* whose column is absent has available = false
C9_MissingColumnsDegrade ==
    \A slot \in Constructed :
        snapshot[slot][1].exc # "ValueError" =>
            /\ snapshot[slot][1].exc = ""
            /\ Obj(slot).data_available => Degrades(Obj(slot))

\* C10: the batter's batting average and on-base percentage and every
\* situational batting average (against) lie in [0, 1]; hits <= at-bats
\* <= plate appearances and hits + walks + hit-by-pitch <= plate
\* appearances
C10_AveragesInUnitInterval ==
    \A slot \in BuiltSlots :
        Obj(slot).data_available =>
            /\ Obj(slot).player_type = "batter" =>
                   LET ss == Obj(slot).summary_stats
                   IN  /\ InRange(ss.batting_avg, FZero, FInt(1))
                       /\ InRange(ss.on_base_pct, FZero, FInt(1))
                       /\ ss.hits <= ss.total_abs
                       /\ ss.total_abs <= ss.total_pas
                       /\ ss.hits + ss.walks + ss.hit_by_pitch <= ss.total_pas
            /\ \A name \in DOMAIN Obj(slot).situational_stats :
                   LET entry == Obj(slot).situational_stats[name]
                   IN  IF Obj(slot).player_type = "batter"
                       THEN InRange(entry.batting_avg, FZero, FInt(1))
                       ELSE InRange(entry.batting_avg_against, FZero, FInt(1))

\* a batter with more hits than other at-bats, walks, and a RISP average
\* strictly between 0 and 1
C10_Witness ==
    \E slot \in BuiltSlots :
        /\ Obj(slot).data_available
        /\ Obj(slot).player_type = "batter"
        /\ Obj(slot).summary_stats.hits = 2
        /\ Obj(slot).summary_stats.total_abs = 3
        /\ Obj(slot).summary_stats.total_pas > 3
        /\ "risp" \in DOMAIN Obj(slot).situational_stats
        /\ Obj(slot).situational_stats.risp.batting_avg = FDiv(FInt(2), FInt(3))

(***************************************************************************)
(* Monotonicity of calculate_mss, checked under SpecMono.                  *)
(***************************************************************************)
\* tracked metric k of a snapshot, k the name of its component
TrackedAt(obj, k) ==
    CASE k = "home_runs_rate" -> Rate(obj.summary_stats, "home_runs", "total_abs")
      [] k = "strikeout_rate" -> Rate(obj.summary_stats, "strikeouts", "total_pas")
      [] k = "launch_speed" -> obj.summary_stats.avg_launch_speed
      [] k = "velocity" -> obj.summary_stats.avg_velocity
      [] k = "barrel_rate" ->
            ProfileGet(obj.batted_ball_profile,
                       IF obj.player_type = "batter" THEN "barrel_rate"
                       ELSE "barrel_rate_allowed")
      [] k = "situational" ->
            IF obj.player_type = "batter"
            THEN RispGet(obj.situational_stats, "batting_avg", FZero)
            ELSE RispGet(obj.situational_stats, "batting_avg_against", FLit(3, 10))
      [] OTHER -> obj.summary_stats[k]

\* the metrics of which lower is the favorable direction
LowerIsBetter(role) ==
    IF role = "batter" THEN {"strikeout_rate"}
    ELSE {"era", "whip", "bb_per_9", "hr_per_9", "barrel_rate", "situational"}

\* the change of tracked metric k from before to after
TrackedChange(before, after, k) ==
    FSub(TrackedAt(after, k), TrackedAt(before, k))

\* the tracked metrics whose change differs between the two pairs
Differing(before1, after1, before2, after2) ==
    {k \in RoleKeys(before1.player_type) :
        TrackedChange(before1, after1, k) # TrackedChange(before2, after2, k)}

\* the change of metric k is at least as favorable in the second pair
AsFavorable(before1, after1, before2, after2, k) ==
    IF k \in LowerIsBetter(before1.player_type)
    THEN FLe(TrackedChange(before2, after2, k), TrackedChange(before1, after1, k))
    ELSE FLe(TrackedChange(before1, after1, k), TrackedChange(before2, after2, k))

\* the changes differ in one metric at most, and there the second pair
\* is at least as favorable
OneMoreFavorable(before1, after1, before2, after2, differing) ==
    /\ Cardinality(differing) <= 1
    /\ \A k \in differing : AsFavorable(before1, after1, before2, after2, k)

Comparable(before, after) ==
    /\ before.data_available /\ after.data_available
    /\ before.player_type = after.player_type

\* the weights are all >= 0 and their total is positive
PositiveTotal(weight_config) ==
    /\ \A i \in DOMAIN weight_config : weight_config[i].w.s >= 0
    /\ TotalWeight(weight_config, Len(weight_config)).s > 0

\* the score of the pair under the configuration of the last call
ScoreOf(before, after) ==
    calculate_mss(before, after, ret.weight_config, "raise").mss

\* C5: of two pairs of one role whose tracked changes agree on every
\* metric but one, the pair whose change of that metric is more
\* favorable does not get the lower score, under one configuration of
\* non-negative weights with a positive total
C5_Monotonic ==
    (MssCall /\ Comparable(Before, After) /\ PositiveTotal(UsedConfig)) =>
        \A self \in BuiltSlots, other \in BuiltSlots :
            (/\ Comparable(Obj(self), Obj(other))
             /\ Obj(self).player_type = Before.player_type
             /\ OneMoreFavorable(Before, After, Obj(self), Obj(other),
                                 Differing(Before, After, Obj(self), Obj(other)))) =>
                FLe(ret.result.mss, ScoreOf(Obj(self), Obj(other)))

\* a batter whose strikeout rate falls further in the other period after,
\* every other change being the same: the score is strictly higher
C5_Witness ==
    /\ MssCall
    /\ ret.self = "pre_stats" /\ ret.other = "post_stats"
    /\ Built("alt_stats")
    /\ Comparable(Before, After)
    /\ Comparable(Before, Obj("alt_stats"))
    /\ Before.player_type = "batter"
    /\ ret.result.exc = ""
    /\ Differing(Before, After, Before, Obj("alt_stats")) = {"strikeout_rate"}
    /\ FLt(TrackedChange(Before, Obj("alt_stats"), "strikeout_rate"),
           TrackedChange(Before, After, "strikeout_rate"))
    /\ FLt(ret.result.mss, ScoreOf(Before, Obj("alt_stats")))

(***************************************************************************)
(* Properties of the batter's summary, checked under SpecAgg.              *)
(***************************************************************************)
\* the batters built from a record set with rows
Batters ==
    {slot \in BuiltSlots :
        Obj(slot).data_available /\ Obj(slot).player_type = "batter"}

\* the records of a record set whose outcome event is e
EventCount(stats, e) ==
    Count(stats, {r \in RowSet(stats) : r.events = <<e>>})

\* singles + 2 * doubles + 3 * triples + 4 * home runs, from the records
TotalBases(stats) ==
    EventCount(stats, "single") + 2 * EventCount(stats, "double")
    + 3 * EventCount(stats, "triple") + 4 * EventCount(stats, "home_run")

\* C11 as stated: for every record set the batter's slugging percentage
\* (total bases / at-bats) lies in [0, 1]
C11_SluggingInUnitInterval ==
    \A slot \in Batters :
        InRange(Obj(slot).summary_stats.slug_pct, FZero, FInt(1))

\* C11: for every record set the batter's slugging percentage is total
\* bases / at-bats (0 without at-bats) and lies in [0, 4]: a hit is worth
\* up to four bases
C11_SluggingAtMostFour ==
    \A slot \in Batters :
        /\ InRange(Obj(slot).summary_stats.slug_pct, FZero, FInt(4))
        /\ Obj(slot).summary_stats.slug_pct =
               Ratio(TotalBases(Obj(slot).raw_data),
                     Obj(slot).summary_stats.total_abs)
        /\ TotalBases(Obj(slot).raw_data) <= 4 * Obj(slot).summary_stats.total_abs

\* a batter whose at-bats are all home runs: the slugging percentage is 4
C11_Witness ==
    \E slot \in Batters :
        /\ Obj(slot).summary_stats.total_abs = 2
        /\ Obj(slot).summary_stats.home_runs = 2
        /\ Obj(slot).summary_stats.slug_pct = FInt(4)

(***************************************************************************)
(* Properties of every view, checked under SpecAgg.                        *)
(***************************************************************************)
\* the snapshots built from a record set with rows
WithData == {slot \in BuiltSlots : Obj(slot).data_available}

BatterFloats ==
    {"batting_avg", "on_base_pct", "slug_pct", "ops", "woba",
     "avg_launch_speed", "avg_launch_angle", "max_exit_velo", "max_distance"}

PitcherFloats ==
    {"innings_pitched", "runs_allowed", "era", "whip", "k_per_9", "bb_per_9",
     "hr_per_9", "k_bb_ratio", "avg_velocity", "avg_spin_rate"}

ProfileFloats(role) ==
    {"ground_ball_pct", "fly_ball_pct", "line_drive_pct", "popup_pct"}
    \cup (IF role = "batter" THEN {"hard_hit_rate", "barrel_rate"}
          ELSE {"hard_hit_rate_allowed", "barrel_rate_allowed"})

PitchFloats(role) ==
    {"strike_rate", "swing_rate", "whiff_rate", "avg_velocity", "avg_spin_rate"}
    \cup (IF role = "batter" THEN {} ELSE {"in_play_rate", "put_away_rate"})

\* every metric under the keys of d is a number
FiniteAt(d, keys) == \A k \in keys : IsFinite(d[k])

\* every metric of the four views of a snapshot is a number
FiniteViews(obj) ==
    /\ FiniteAt(obj.summary_stats,
                IF obj.player_type = "batter" THEN BatterFloats ELSE PitcherFloats)
    /\ obj.batted_ball_profile.available =>
           FiniteAt(obj.batted_ball_profile, ProfileFloats(obj.player_type))
    /\ obj.pitch_type_stats.available =>
           \A pitch_type \in DOMAIN obj.pitch_type_stats.pitch_types :
               LET entry == obj.pitch_type_stats.pitch_types[pitch_type]
               IN  /\ FiniteAt(entry, PitchFloats(obj.player_type))
                   /\ FiniteAt(entry.contact_results, DOMAIN entry.contact_results)
    /\ \A name \in DOMAIN obj.situational_stats :
           FiniteAt(obj.situational_stats[name],
                    IF obj.player_type = "batter" THEN {"batting_avg"}
                    ELSE {"batting_avg_against"})

\* the rates of the summary whose denominator is 0 are 0, and K:BB is the
\* strikeout count when there is no walk
ZeroDenominators(obj) ==
    LET ss == obj.summary_stats
    IN  IF obj.player_type = "batter"
        THEN /\ ss.total_abs = 0 => ss.batting_avg = FZero /\ ss.slug_pct = FZero
             /\ ss.total_pas = 0 => ss.on_base_pct = FZero
             /\ SumOrZero(obj.raw_data, "woba_denom") = 0 => ss.woba = FZero
        ELSE /\ ss.innings_pitched = FZero =>
                    /\ ss.era = FZero /\ ss.whip = FZero /\ ss.k_per_9 = FZero
                    /\ ss.bb_per_9 = FZero /\ ss.hr_per_9 = FZero
             /\ ss.walks = 0 => ss.k_bb_ratio = FInt(ss.strikeouts)

\* the rates of a pitch type without a swing, or without a put-away
\* opportunity, are 0
ZeroSwings(obj) ==
    obj.pitch_type_stats.available =>
        \A pitch_type \in DOMAIN obj.pitch_type_stats.pitch_types :
            LET entry == obj.pitch_type_stats.pitch_types[pitch_type]
                group == PitchGroup(obj.raw_data, pitch_type)
            IN  /\ Count(group, {r \in RowSet(group) : DescIn(r, SwingDescriptions)}) = 0
                       => entry.whiff_rate = FZero
                /\ (obj.player_type = "pitcher"
                    /\ Count(group, {r \in RowSet(group) :
                                        DescIn(r, {"swinging_strike", "hit_into_play"})}) = 0)
                       => entry.put_away_rate = FZero

\* C12: no rate of the aggregation or of the flattened summary divides by
\* zero: every metric of the four views of a snapshot and of get_summary
\* is a finite number, a rate whose denominator is 0 is 0, and K:BB is
\* the strikeout count when walks = 0
C12_NoDivisionByZero ==
    /\ \A slot \in WithData :
           /\ FiniteViews(Obj(slot))
           /\ ZeroDenominators(Obj(slot))
           /\ ZeroSwings(Obj(slot))
    /\ (ret.op = "get_summary" /\ ret.result.value.data_available) =>
           FiniteAt(ret.result.value.metrics, DOMAIN ret.result.value.metrics)

\* a pitcher who recorded no out and faced no batter, without a walk, and
\* the flattened summary of it: zero innings pitched, every rate 0
C12_Witness ==
    /\ ret.op = "get_summary"
    /\ Obj(ret.self).data_available
    /\ Obj(ret.self).player_type = "pitcher"
    /\ Obj(ret.self).summary_stats.innings_pitched = FZero
    /\ Obj(ret.self).summary_stats.walks = 0
    /\ ret.result.value.metrics.era = FZero
    /\ ret.result.value.metrics.k_bb_ratio = FZero

(***************************************************************************)
(* Properties of snapshots without data and of roles, checked under        *)
(* SpecRole.                                                               *)
(***************************************************************************)
\* the before values calculate_mss looks up in a snapshot itself, by
\* component
Lookups(obj) ==
    IF obj.player_type = "batter"
    THEN [home_runs_rate |-> Rate(obj.summary_stats, "home_runs", "total_abs"),
          strikeout_rate |-> Rate(obj.summary_stats, "strikeouts", "total_pas"),
          barrel_rate |-> ProfileGet(obj.batted_ball_profile, "barrel_rate"),
          launch_speed |-> Get(obj.summary_stats, "avg_launch_speed", FZero),
          situational |-> RispGet(obj.situational_stats, "batting_avg", FZero)]
    ELSE [era |-> Get(obj.summary_stats, "era", FZero),
          whip |-> Get(obj.summary_stats, "whip", FZero),
          velocity |-> Get(obj.summary_stats, "avg_velocity", FZero),
          barrel_rate |-> ProfileGet(obj.batted_ball_profile, "barrel_rate_allowed"),
          situational |-> RispGet(obj.situational_stats, "batting_avg_against",
                                  FLit(3, 10))]

\* the record set has no row, or no column
NoRecords(stats) == stats.rows = <<>> \/ stats.cols = {}

\* the four views are as the constructor initialised them
ViewsEmpty(obj) ==
    /\ obj.summary_stats = EmptyDict
    /\ obj.batted_ball_profile = EmptyDict
    /\ obj.pitch_type_stats = EmptyDict
    /\ obj.situational_stats = EmptyDict

\* data_available is false exactly for an empty record set, and then the
\* views are empty and get_summary returns the three fields of a snapshot
\* without data
EmptyIffNoData ==
    /\ \A slot \in BuiltSlots :
           /\ ~Obj(slot).data_available <=> NoRecords(Obj(slot).raw_data)
           /\ ~Obj(slot).data_available => ViewsEmpty(Obj(slot))
           /\ Obj(slot).data_available => ~ViewsEmpty(Obj(slot))
    /\ (ret.op = "get_summary" /\ ~Obj(ret.self).data_available) =>
           /\ ret.result.exc = ""
           /\ ret.result.value =
                  [player_name |-> Obj(ret.self).player_name,
                   player_id |-> Obj(ret.self).player_id,
                   data_available |-> FALSE]

C14_InvalidRoleRejected ==
    /\ \A slot \in BuiltSlots : Obj(slot).player_type \in {"batter", "pitcher"}
    /\ MssCall =>
           {Before.player_type, After.player_type} \subseteq {"batter", "pitcher"}

(***************************************************************************)
(* Properties of calculate_momentum_shift_score, checked under SpecMoment. *)
(***************************************************************************)
Returned == ret.op = "calculate_momentum_shift_score" /\ ret.pc = "done"

\* the player's name is in the ID table and both fetches answered with
\* records
BothFetched(player_type) ==
    /\ ret.mlbIDs[ret.moment_row[PlayerCol(player_type)]] # <<>>
    /\ \A slot \in {player_type \o "_pre", player_type \o "_post"} :
           ret.source[slot].exc = "" /\ ~NoRecords(ret.source[slot].stats)

\* the snapshot of the records a fetch answered with
SnapshotOf(player_type, slot) ==
    PlayerStats([player_name |-> ret.moment_row[PlayerCol(player_type)],
                 player_id |-> ret.mlbIDs[ret.moment_row[PlayerCol(player_type)]][1],
                 stats_df |-> ret.source[slot].stats,
                 start_date |-> Obj(slot).start_date,
                 end_date |-> Obj(slot).end_date,
                 player_type |-> player_type])

\* results[player_type] holds the score of the records fetched
ScoredFromRecords(player_type, pre, post) ==
    /\ pre.exc = "" /\ post.exc = ""
    /\ ret.results[player_type].mss =
           <<calculate_mss(pre.obj, post.obj, None, "raise").mss>>
    /\ ret.results[player_type].details =
           <<calculate_mss(pre.obj, post.obj, None, "raise").details>>

\* C15: whichever lookups and fetches fail, the call reaches its return
\* without raising, and a role whose two fetches answered with records
\* has the score computed from those records, whatever happened to the
\* other role
C15_SiblingsIndependent ==
    /\ ret.op = "calculate_momentum_shift_score" => ret.exc = ""
    /\ Returned =>
           \A player_type \in {"batter", "pitcher"} :
               BothFetched(player_type) =>
                   ScoredFromRecords(player_type,
                                     SnapshotOf(player_type, player_type \o "_pre"),
                                     SnapshotOf(player_type, player_type \o "_post"))

\* a snapshot of the role has no data: the lookup or a fetch failed, a
\* fetch found no record, or the records could not be aggregated
LacksData(player_type) ==
    \/ ~Obj(player_type \o "_pre").data_available
    \/ ~Obj(player_type \o "_post").data_available

\* C16: in the bundle returned, mss and details of both roles are set,
\* and a role of which a snapshot has no data has mss exactly 50.0,
\* the eight components of the role at 0 and the role's default weights
C16_NeutralWithoutData ==
    Returned =>
        \A player_type \in {"batter", "pitcher"} :
            /\ ret.results[player_type].mss # None
            /\ ret.results[player_type].details # None
            /\ LacksData(player_type) =>
                   /\ ret.results[player_type].mss = <<FInt(50)>>
                   /\ ret.results[player_type].details[1].components =
                          [k \in RoleKeys(player_type) |-> FZero]
                   /\ ret.results[player_type].details[1].weights =
                          DefaultWeights(player_type)

\* the pitcher's name is not in the ID table and the batter is scored
\* from records: the pitcher's bundle is the neutral one, the batter's
\* is not
C16_Witness ==
    /\ Returned
    /\ ret.mlbIDs["the pitcher"] = <<>>
    /\ LacksData("pitcher")
    /\ ~LacksData("batter")
    /\ ret.results.pitcher.mss = <<FInt(50)>>
    /\ DOMAIN ret.results.pitcher.details[1].components = PitcherKeys
    /\ ret.results.batter.mss # <<FInt(50)>>

(***************************************************************************)
(* Properties of the batted-ball profile, checked under SpecAgg.           *)
(***************************************************************************)
\* a record with a batted-ball type
IsBattedBall(r) == r.bb_type # <<>>

\* a batted ball at 98 mph or more, between 8 and 32 degrees
IsBarrel(r) ==
    /\ IsBattedBall(r)
    /\ r.launch_speed # <<>> /\ r.launch_speed[1] >= 98
    /\ r.launch_angle # <<>> /\ r.launch_angle[1] >= 8 /\ r.launch_angle[1] <= 32

\* a batted ball at 95 mph or more
IsHardHit(r) ==
    IsBattedBall(r) /\ r.launch_speed # <<>> /\ r.launch_speed[1] >= 95

\* the share of the batted balls of a record set that are in chosen
Share(stats, chosen) ==
    FDiv(FInt(Count(stats, chosen)),
         FInt(Count(stats, {r \in RowSet(stats) : IsBattedBall(r)})))

\* C17: a record is a barrel exactly when it has a batted-ball type, an
\* exit velocity >= 98 mph and a launch angle in [8, 32]; the barrel rate
\* is barrels / records with a batted-ball type and the hard-hit rate the
\* share of those records at >= 95 mph, for batters (hard_hit_rate,
\* barrel_rate) as for pitchers (hard_hit_rate_allowed,
\* barrel_rate_allowed)
C17_BarrelDefinition ==
    \A slot \in WithData :
        LET stats == Obj(slot).raw_data
            profile == Obj(slot).batted_ball_profile
            batter == Obj(slot).player_type = "batter"
        IN  /\ profile.available
                   <=> Count(stats, {r \in RowSet(stats) : IsBattedBall(r)}) > 0
            /\ profile.available =>
                   /\ profile.total_batted_balls =
                          Count(stats, {r \in RowSet(stats) : IsBattedBall(r)})
                   /\ (IF batter THEN profile.barrel_rate
                       ELSE profile.barrel_rate_allowed)
                          = Share(stats, {r \in RowSet(stats) : IsBarrel(r)})
                   /\ (IF batter THEN profile.hard_hit_rate
                       ELSE profile.hard_hit_rate_allowed)
                          = Share(stats, {r \in RowSet(stats) : IsHardHit(r)})

\* a pitcher who allowed one ball at 99 mph and 20 degrees and one at 105
\* mph and 35 degrees: one barrel of two batted balls, both hit hard
C17_Witness ==
    \E slot \in WithData :
        /\ Obj(slot).player_type = "pitcher"
        /\ RowSet(Obj(slot).raw_data) = {Row(BarrelRow), Row(SkiedRow)}
        /\ Obj(slot).batted_ball_profile.total_batted_balls = 2
        /\ Obj(slot).batted_ball_profile.barrel_rate_allowed = FLit(1, 2)
        /\ Obj(slot).batted_ball_profile.hard_hit_rate_allowed = FInt(1)

PlateAppearances(stats) ==
    Count(stats, {r \in RowSet(stats) : r.events # <<>>})

\* plate appearances less the walks, hit batters and sacrifices
AtBats(stats) ==
    PlateAppearances(stats) - EventCount(stats, "walk")
    - EventCount(stats, "hit_by_pitch") - EventCount(stats, "sac_fly")
    - EventCount(stats, "sac_bunt")

\* singles + doubles + triples + home runs
HitsOf(stats) ==
    EventCount(stats, "single") + EventCount(stats, "double")
    + EventCount(stats, "triple") + EventCount(stats, "home_run")

\* n / d, and 0 of no d
QuotientOrZero(n, d) == IF d = 0 THEN FZero ELSE FDiv(FInt(n), FInt(d))

\* a summary that reports the line of these records
BatterLineOf(summary, stats) ==
    /\ summary.total_pas = PlateAppearances(stats)
    /\ summary.total_abs = AtBats(stats)
    /\ summary.hits = HitsOf(stats)
    /\ summary.batting_avg = QuotientOrZero(HitsOf(stats), AtBats(stats))
    /\ summary.on_base_pct =
           QuotientOrZero(HitsOf(stats) + EventCount(stats, "walk")
                          + EventCount(stats, "hit_by_pitch"),
                          PlateAppearances(stats))
    /\ summary.ops = FAdd(summary.on_base_pct, summary.slug_pct)

\* the line of every batter whose records have an events column is the
\* line of the records
BatterLineWithEvents ==
    \A slot \in Batters :
        "events" \in Obj(slot).raw_data.cols =>
            BatterLineOf(Obj(slot).summary_stats, Obj(slot).raw_data)

\* C19: for a batter over a non-empty record set, plate appearances are
\* the records with an outcome event (0 when none carries one, also when
\* the events column is absent), at-bats are those less walks, hit batters
\* and sacrifices, hits are singles + doubles + triples + home runs,
\* batting average is hits / at-bats, on-base is (hits + walks + hit by
\* pitch) / plate appearances, and OPS is on-base + slugging
C19_BatterLine ==
    \A slot \in Batters :
        BatterLineOf(Obj(slot).summary_stats, Obj(slot).raw_data)

(***************************************************************************)
(* The pitcher's line restated from the records, checked under SpecAgg.    *)
(***************************************************************************)
Pitchers ==
    {slot \in BuiltSlots :
        Obj(slot).data_available /\ Obj(slot).player_type = "pitcher"}

\* field outs + strikeouts + force outs + two for each double play
OutsOf(stats) ==
    EventCount(stats, "field_out") + EventCount(stats, "strikeout")
    + EventCount(stats, "force_out")
    + 2 * EventCount(stats, "grounded_into_double_play")

\* the distinct at-bat identifiers of the records
AtBatIds(stats) ==
    Cardinality({r.at_bat_number : r \in {q \in RowSet(stats) : q.at_bat_number # <<>>}})

\* outs / 3, and of no out the distinct at-bats / 3
InningsOf(stats) ==
    IF OutsOf(stats) > 0 THEN FDiv(FInt(OutsOf(stats)), FInt(3))
    ELSE FDiv(FInt(AtBatIds(stats)), FInt(3))

\* the records on which a run scored; half the hits if no record can say
RunsOf(stats) ==
    IF "runs_scored_on_play" \in stats.cols
    THEN FInt(Count(stats, {r \in RowSet(stats) :
                               /\ r.runs_scored_on_play # <<>>
                               /\ r.runs_scored_on_play[1] > 0}))
    ELSE FMul(FInt(HitsOf(stats)), FLit(1, 2))

\* x per inning pitched, and 0 of no inning
PerInningOf(x, stats) ==
    IF InningsOf(stats) = FZero THEN FZero ELSE FDiv(x, InningsOf(stats))

\* a summary that reports the line of these records
PitcherLineOf(summary, stats) ==
    /\ summary.innings_pitched = InningsOf(stats)
    /\ summary.runs_allowed = RunsOf(stats)
    /\ summary.era = PerInningOf(FMul(FInt(9), RunsOf(stats)), stats)
    /\ FLe(FZero, summary.era)
    /\ summary.whip =
           PerInningOf(FInt(HitsOf(stats) + EventCount(stats, "walk")), stats)
    /\ summary.k_per_9 = PerInningOf(FInt(9 * EventCount(stats, "strikeout")), stats)
    /\ summary.bb_per_9 = PerInningOf(FInt(9 * EventCount(stats, "walk")), stats)
    /\ summary.hr_per_9 = PerInningOf(FInt(9 * EventCount(stats, "home_run")), stats)

\* the line of every pitcher who got an out, or whose records have an
\* at_bat_number column, is the line of the records
PitcherLineWithAtBats ==
    \A slot \in Pitchers :
        (\/ "at_bat_number" \in Obj(slot).raw_data.cols
         \/ OutsOf(Obj(slot).raw_data) > 0) =>
            PitcherLineOf(Obj(slot).summary_stats, Obj(slot).raw_data)

\* C20: for a pitcher, outs are field outs + strikeouts + force outs + 2
\* for each double play; innings pitched are outs / 3, and the distinct
\* at-bat identifiers / 3 when there is no out; runs allowed are the
\* records on which a run scored, or half the hits without that column;
\* ERA is 9 * runs allowed / innings pitched, never negative and 0 of no
\* inning; WHIP, K/9, BB/9 and HR/9 divide by the same innings and are 0
\* of no inning
C20_PitcherLine ==
    \A slot \in Pitchers :
        PitcherLineOf(Obj(slot).summary_stats, Obj(slot).raw_data)

(***************************************************************************)
(* The situational statistics restated from the records, checked under     *)
(* SpecAgg.                                                                *)
(***************************************************************************)
AllSituations ==
    {"ahead_count", "behind_count", "even_count", "bases_empty", "risp",
     "early_innings", "middle_innings", "late_innings"}

\* the columns the predicate of a situation reads
PredicateColumns(name) ==
    CASE name \in {"ahead_count", "behind_count", "even_count"} -> {"balls", "strikes"}
      [] name = "bases_empty" -> {"on_1b", "on_2b", "on_3b"}
      [] name = "risp" -> {"on_2b", "on_3b"}
      [] OTHER -> {"inning"}

\* the columns of the block of the source that stores the situation
BlockColumns(name) ==
    IF name = "risp" THEN {"on_1b", "on_2b", "on_3b"} ELSE PredicateColumns(name)

\* more balls than strikes
MoreBalls(r) == r.balls # <<>> /\ r.strikes # <<>> /\ r.balls[1] > r.strikes[1]

\* more strikes than balls
MoreStrikes(r) == r.balls # <<>> /\ r.strikes # <<>> /\ r.strikes[1] > r.balls[1]

\* the record is of the situation, for a batter or for a pitcher
InSituation(r, name, batter) ==
    CASE name = "ahead_count" -> IF batter THEN MoreBalls(r) ELSE MoreStrikes(r)
      [] name = "behind_count" -> IF batter THEN MoreStrikes(r) ELSE MoreBalls(r)
      [] name = "even_count" ->
             r.balls # <<>> /\ r.strikes = r.balls /\ r.balls[1] > 0
      [] name = "bases_empty" ->
             \A base \in {"on_1b", "on_2b", "on_3b"} : r[base] = <<>>
      [] name = "risp" -> \E base \in {"on_2b", "on_3b"} : r[base] # <<>>
      [] name = "early_innings" -> r.inning # <<>> /\ r.inning[1] <= 3
      [] name = "middle_innings" -> r.inning # <<>> /\ r.inning[1] \in 4..6
      [] name = "late_innings" -> r.inning # <<>> /\ r.inning[1] > 6

\* the hits among the records of the situation
SituationHits(stats, name, batter) ==
    Count(stats, {r \in RowSet(stats) : InSituation(r, name, batter) /\ IsHit(r)})

\* the at-bats among the records of the situation
SituationAtBats(stats, name, batter) ==
    Count(stats, {r \in RowSet(stats) : InSituation(r, name, batter) /\ IsAtBat(r)})

\* the average an entry carries: batting_avg, batting_avg_against
AverageOf(entry, batter) ==
    IF batter THEN entry.batting_avg ELSE entry.batting_avg_against

\* the entry of a situation is that of its records
EntryOfRecords(entry, stats, name, batter) ==
    /\ entry.total_at_bats = SituationAtBats(stats, name, batter)
    /\ AverageOf(entry, batter) =
           QuotientOrZero(SituationHits(stats, name, batter),
                          SituationAtBats(stats, name, batter))

\* the key is stored exactly when the columns are present with the events
\* column and a record is of the situation, and then with the entry of
\* its records
KeyOfRecords(situational_stats, stats, name, batter, columns) ==
    /\ name \in DOMAIN situational_stats <=>
           /\ columns \cup {"events"} \subseteq stats.cols
           /\ \E r \in RowSet(stats) : InSituation(r, name, batter)
    /\ name \in DOMAIN situational_stats =>
           EntryOfRecords(situational_stats[name], stats, name, batter)

\* C21 as stated: a situation key is in a snapshot's situational stats if
\* and only if every column its predicate needs and the events column are
\* present and at least one record satisfies the predicate
C21_SituationKeys ==
    \A slot \in WithData :
        /\ DOMAIN Obj(slot).situational_stats \subseteq AllSituations
        /\ \A name \in AllSituations :
               KeyOfRecords(Obj(slot).situational_stats, Obj(slot).raw_data, name,
                            Obj(slot).player_type = "batter", PredicateColumns(name))

\* C21, amended: a situation key is in a snapshot's situational stats if
\* and only if every column of its block (for risp on_1b as well as on_2b
\* and on_3b) and the events column are present and at least one record
\* satisfies the predicate; risp selects the records with a runner on 2nd
\* or on 3rd, bases_empty those with no runner on any base; a present key
\* carries the hits / at-bats average of its group and the group's at-bat
\* count
C21_SituationKeysByBlock ==
    \A slot \in WithData :
        /\ DOMAIN Obj(slot).situational_stats \subseteq AllSituations
        /\ \A name \in AllSituations :
               KeyOfRecords(Obj(slot).situational_stats, Obj(slot).raw_data, name,
                            Obj(slot).player_type = "batter", BlockColumns(name))

\* records with a runner on second in a frame without the on_1b column:
\* no risp key, and the count and inning keys with their at-bats
C21_Witness ==
    \E slot \in WithData :
        /\ Obj(slot).raw_data.cols = Columns \ {"on_1b"}
        /\ \E r \in RowSet(Obj(slot).raw_data) : r.on_2b # <<>>
        /\ DOMAIN Obj(slot).situational_stats =
               AllSituations \ {"risp", "bases_empty", "even_count"}
        /\ Obj(slot).situational_stats.ahead_count.total_at_bats > 0

(***************************************************************************)
(* A batter's and a pitcher's snapshot of the same records, checked under  *)
(* SpecRole.                                                               *)
(***************************************************************************)
\* the name under which the other role stores the group of a name
Mirrored(name) ==
    CASE name = "ahead_count" -> "behind_count"
      [] name = "behind_count" -> "ahead_count"
      [] OTHER -> name

\* the batter's entry and the pitcher's entry are of the same hits and
\* at-bats
SameLine(batter_entry, pitcher_entry) ==
    /\ batter_entry.total_at_bats = pitcher_entry.total_at_bats
    /\ batter_entry.batting_avg = pitcher_entry.batting_avg_against

\* pairs (batter, pitcher) of snapshots with data built from one record set
SameRecords ==
    {pair \in WithData \X WithData :
        /\ Obj(pair[1]).player_type = "batter"
        /\ Obj(pair[2]).player_type = "pitcher"
        /\ Obj(pair[1]).raw_data = Obj(pair[2]).raw_data}

\* C22: over the same record set the batter's ahead_count group is the
\* records with balls > strikes and the pitcher's those with strikes >
\* balls, so the batter's ahead_count entry has the hits and at-bats of
\* the pitcher's behind_count entry and vice versa; even_count,
\* bases_empty, risp and the inning buckets are the same for both roles
C22_CountBucketsMirrored ==
    \A pair \in SameRecords :
        \A name \in AllSituations :
            /\ name \in DOMAIN Obj(pair[1]).situational_stats
                   <=> Mirrored(name) \in DOMAIN Obj(pair[2]).situational_stats
            /\ name \in DOMAIN Obj(pair[1]).situational_stats =>
                   /\ SameLine(Obj(pair[1]).situational_stats[name],
                               Obj(pair[2]).situational_stats[Mirrored(name)])
                   /\ EntryOfRecords(Obj(pair[1]).situational_stats[name],
                                     Obj(pair[1]).raw_data, name, TRUE)
                   /\ EntryOfRecords(Obj(pair[2]).situational_stats[Mirrored(name)],
                                     Obj(pair[2]).raw_data, Mirrored(name), FALSE)

\* one single on 1-0 and two outs on 0-1: the batter is 1 for 1 ahead and
\* 0 for 2 behind, the pitcher 0 for 2 ahead and 1 for 1 behind
C22_Witness ==
    \E pair \in SameRecords :
        /\ {"ahead_count", "behind_count"}
               \subseteq DOMAIN Obj(pair[1]).situational_stats
        /\ Obj(pair[1]).situational_stats.ahead_count =
               [batting_avg |-> FInt(1), total_at_bats |-> 1]
        /\ Obj(pair[1]).situational_stats.behind_count =
               [batting_avg |-> FZero, total_at_bats |-> 2]
        /\ Obj(pair[2]).situational_stats.ahead_count =
               [batting_avg_against |-> FZero, total_at_bats |-> 2]
        /\ Obj(pair[2]).situational_stats.behind_count =
               [batting_avg_against |-> FInt(1), total_at_bats |-> 1]

(***************************************************************************)
(* The components restated from the two snapshots, checked under           *)
(* SpecScore.                                                              *)
(***************************************************************************)
\* the change of a component's metric that saturates the component
ScaleOf(role, k) ==
    IF role = "batter"
    THEN CASE k \in {"batting_avg", "on_base_pct", "strikeout_rate"} -> FLit(50, 1000)
           [] k = "slug_pct" -> FLit(100, 1000)
           [] k \in {"home_runs_rate", "barrel_rate"} -> FLit(30, 1000)
           [] k = "launch_speed" -> FInt(2)
           [] k = "situational" -> FLit(70, 1000)
    ELSE CASE k \in {"era", "bb_per_9", "velocity"} -> FInt(1)
           [] k = "whip" -> FLit(300, 1000)
           [] k = "k_per_9" -> FLit(15, 10)
           [] k = "hr_per_9" -> FLit(5, 10)
           [] k = "barrel_rate" -> FLit(30, 1000)
           [] k = "situational" -> FLit(50, 1000)

\* the components for which a decrease is favorable: before minus after
Reversed(role, k) ==
    IF role = "batter" THEN k = "strikeout_rate"
    ELSE k \in {"era", "whip", "bb_per_9", "hr_per_9", "barrel_rate", "situational"}

\* the RISP average of a snapshot, and what scoring takes when there is
\* none: 0 for a batter, 0.3 for a pitcher
RispValue(obj) ==
    IF "risp" \in DOMAIN obj.situational_stats
    THEN AverageOf(obj.situational_stats.risp, obj.player_type = "batter")
    ELSE IF obj.player_type = "batter" THEN FZero ELSE FLit(3, 10)

\* the barrel rate of a snapshot, 0 without batted balls
BarrelValue(obj) ==
    IF ~obj.batted_ball_profile.available THEN FZero
    ELSE IF obj.player_type = "batter" THEN obj.batted_ball_profile.barrel_rate
    ELSE obj.batted_ball_profile.barrel_rate_allowed

\* the metric of a component in a snapshot with data
MetricOf(obj, k) ==
    CASE k = "home_runs_rate" ->
             QuotientOrZero(obj.summary_stats.home_runs, obj.summary_stats.total_abs)
      [] k = "strikeout_rate" ->
             QuotientOrZero(obj.summary_stats.strikeouts, obj.summary_stats.total_pas)
      [] k = "barrel_rate" -> BarrelValue(obj)
      [] k = "launch_speed" -> obj.summary_stats.avg_launch_speed
      [] k = "velocity" -> obj.summary_stats.avg_velocity
      [] k = "situational" -> RispValue(obj)
      [] OTHER -> obj.summary_stats[k]

\* after minus before, or before minus after for a reversed component
SignedChange(before, after, k) ==
    IF Reversed(before.player_type, k)
    THEN FSub(MetricOf(before, k), MetricOf(after, k))
    ELSE FSub(MetricOf(after, k), MetricOf(before, k))

\* x brought into [-1, 1]
ClampUnit(x) ==
    IF FLt(FInt(1), x) THEN FInt(1) ELSE IF FLt(x, FInt(-1)) THEN FInt(-1) ELSE x

\* C23: when the comparison is available, each component is the clamp to
\* [-1, 1] of (signed change) / scale: batter batting_avg and on_base_pct
\* .050, slug_pct .100, home_runs_rate .030, strikeout_rate .050 with
\* before minus after, barrel_rate .030, launch_speed 2.0, situational
\* .070; pitcher era 1.0, whip .300, bb_per_9 1.0, hr_per_9 .5,
\* barrel_rate .030 and situational .050 with before minus after, k_per_9
\* 1.5 and velocity 1.0 with after minus before
C23_ComponentScales ==
    (MssCall /\ ~ComparisonUnavailable(Before, After) /\ ret.result.exc = "") =>
        /\ DOMAIN ret.result.details.components = RoleKeys(Before.player_type)
        /\ \A k \in RoleKeys(Before.player_type) :
               ret.result.details.components[k] =
                   ClampUnit(FDiv(SignedChange(Before, After, k),
                                  ScaleOf(Before.player_type, k)))

\* two batters' lines of which the second strikes out more: the
\* strikeout_rate component is negative, and a component whose change is
\* more than its scale is cut to 1
C23_Witness ==
    /\ MssCall /\ ~ComparisonUnavailable(Before, After) /\ ret.result.exc = ""
    /\ Before.player_type = "batter"
    /\ After.summary_stats.strikeouts > Before.summary_stats.strikeouts
    /\ FLt(ret.result.details.components.strikeout_rate, FZero)
    /\ \E k \in BatterKeys :
           /\ FLt(FInt(1), FDiv(SignedChange(Before, After, k), ScaleOf("batter", k)))
           /\ ret.result.details.components[k] = FInt(1)

(***************************************************************************)
(* Scoring a snapshot that has no risp entry, checked under SpecRole.      *)
(***************************************************************************)
\* the RISP average of a snapshot, or the default when it has no risp
\* entry
RispOr(obj, default) ==
    IF "risp" \in DOMAIN obj.situational_stats
    THEN AverageOf(obj.situational_stats.risp, obj.player_type = "batter")
    ELSE default

\* C24: a snapshot that has no risp entry counts in scoring with a RISP
\* value of 0 for a batter and of 0.3 for a pitcher: the pitcher's
\* situational component is clamp((before - after) / .050) and the
\* batter's clamp((after - before) / .070) with these values
C24_RispDefaults ==
    (/\ MssCall /\ ~ComparisonUnavailable(Before, After) /\ ret.result.exc = ""
     /\ \/ "risp" \notin DOMAIN Before.situational_stats
        \/ "risp" \notin DOMAIN After.situational_stats) =>
        ret.result.details.components.situational =
            IF Before.player_type = "batter"
            THEN ClampUnit(FDiv(FSub(RispOr(After, FZero), RispOr(Before, FZero)),
                                FLit(70, 1000)))
            ELSE ClampUnit(FDiv(FSub(RispOr(Before, FLit(3, 10)),
                                     RispOr(After, FLit(3, 10))),
                                FLit(50, 1000)))

\* a pitcher without risp entry before and 2 hits in 7 at-bats with
\* runners in scoring position after: (0.3 - 2/7) / .050, between 0 and 1
C24_Witness ==
    /\ MssCall /\ ~ComparisonUnavailable(Before, After) /\ ret.result.exc = ""
    /\ Before.player_type = "pitcher"
    /\ "risp" \notin DOMAIN Before.situational_stats
    /\ "risp" \in DOMAIN After.situational_stats
    /\ After.situational_stats.risp.batting_avg_against = FDiv(FInt(2), FInt(7))
    /\ FLt(FZero, ret.result.details.components.situational)
    /\ FLt(ret.result.details.components.situational, FInt(1))

(***************************************************************************)
(* The two snapshots exchanged: calculate_mss under the default weights,   *)
(* under non-negative weights and under weights of both signs whose sum    *)
(* is not 0.                                                               *)
(***************************************************************************)
\* weights of both signs, total 2: {'on_base_pct': 5, 'slug_pct': -3}
SkewedConfig == <<Item("on_base_pct", FInt(5)), Item("slug_pct", FInt(-3))>>

SwapConfigs == {None, <<SharedConfig>>, <<SkewedConfig>>}

NextSwap ==
    \/ Construct(ScoreInputs)
    \/ CalculateMss(SwapConfigs)

SpecSwap == InitPair /\ [][NextSwap]_vars

\* other_stats.calculate_mss(self, weight_config) for the call made
Swapped == calculate_mss(After, Before, ret.weight_config, "raise")

\* every component of the exchanged call is the negation of the call's
ComponentsNegated ==
    /\ ret.result.exc = ""
    /\ Swapped.exc = ""
    /\ DOMAIN Swapped.details.components = DOMAIN ret.result.details.components
    /\ \A k \in DOMAIN ret.result.details.components :
           Swapped.details.components[k] = FNeg(ret.result.details.components[k])

\* weight_config.values() holds no negative weight
NoNegativeWeight(weight_config) ==
    \A i \in 1..Len(weight_config) : weight_config[i].w.s # -1

\* C25: for two snapshots with data of one role and a configuration whose
\* total weight is not 0, every component of a.calculate_mss(b) is the
\* negation of the same component of b.calculate_mss(a), and the two
\* scores sum to exactly 100
C25_SwapNegates ==
    (/\ MssCall /\ ~ComparisonUnavailable(Before, After)
     /\ TotalWeight(UsedConfig, Len(UsedConfig)).s # 0) =>
        /\ ComponentsNegated
        /\ FAdd(ret.result.mss, Swapped.mss) = FInt(100)

\* C25, amended: for two snapshots with data of one role and a
\* configuration whose total weight is not 0, every component of
\* a.calculate_mss(b) is the negation of the same component of
\* b.calculate_mss(a); when moreover no weight is negative, the two
\* scores sum to exactly 100
C25_SwapNegatesUnsigned ==
    (/\ MssCall /\ ~ComparisonUnavailable(Before, After)
     /\ TotalWeight(UsedConfig, Len(UsedConfig)).s # 0) =>
        /\ ComponentsNegated
        /\ NoNegativeWeight(UsedConfig) =>
               FAdd(ret.result.mss, Swapped.mss) = FInt(100)

\* two different lines of a batter scored under the default weights: a
\* component strictly between 0 and 1, a score above 50 and below 100
\* one way and below 50 the other way
C25_Witness ==
    /\ MssCall /\ ~ComparisonUnavailable(Before, After) /\ ret.result.exc = ""
    /\ ret.weight_config = None
    /\ Before.player_type = "batter"
    /\ FLt(FZero, ret.result.details.components.slug_pct)
    /\ FLt(ret.result.details.components.slug_pct, FInt(1))
    /\ FLt(FInt(50), ret.result.mss) /\ FLt(ret.result.mss, FInt(100))
    /\ FLt(Swapped.mss, FInt(50))

(***************************************************************************)
(* The count buckets and the inning buckets of a snapshot's records,       *)
(* checked under SpecAgg.                                                  *)
(***************************************************************************)
CountNames == {"ahead_count", "behind_count", "even_count"}

InningNames == {"early_innings", "middle_innings", "late_innings"}

\* the names among names whose group holds the record
GroupsOf(r, stats, names, batter) ==
    {name \in names : r \in RowSet(SituationGroup(stats, name, batter))}

\* situational[name]['total_at_bats'] of a stored key, 0 of a key not stored
StoredAtBats(situational_stats, name) ==
    IF name \in DOMAIN situational_stats
    THEN situational_stats[name].total_at_bats ELSE 0

\* the at-bats stored under the three count keys
CountAtBats(situational_stats) ==
    StoredAtBats(situational_stats, "ahead_count")
    + StoredAtBats(situational_stats, "behind_count")
    + StoredAtBats(situational_stats, "even_count")

\* a record is in at most one count group, in none with the count 0-0, and
\* in at most one inning group; the count keys' at-bats are at most the
\* at-bats of the records
BucketsDisjoint(stats, situational_stats, batter) ==
    /\ \A r \in RowSet(stats) :
           /\ Cardinality(GroupsOf(r, stats, CountNames, batter)) <= 1
           /\ (r.balls = <<0>> /\ r.strikes = <<0>>) =>
                  GroupsOf(r, stats, CountNames, batter) = {}
           /\ Cardinality(GroupsOf(r, stats, InningNames, batter)) <= 1
           /\ GroupsOf(r, stats, InningNames, batter) =
                  {name \in InningNames : InSituation(r, name, batter)}
    /\ CountAtBats(situational_stats) <= AtBats(stats)

\* C26: the three count buckets are pairwise disjoint and a record with
\* balls = strikes = 0 is in none of them, for either role, so the at-bat
\* counts of the count buckets sum to at most the snapshot's total
\* at-bats; each record is in at most one of early_innings (inning <= 3),
\* middle_innings (4 to 6) and late_innings (> 6)
C26_BucketsDisjoint ==
    /\ \A slot \in WithData :
           BucketsDisjoint(Obj(slot).raw_data, Obj(slot).situational_stats,
                           Obj(slot).player_type = "batter")
    /\ \A slot \in Batters :
           CountAtBats(Obj(slot).situational_stats)
               <= Obj(slot).summary_stats.total_abs

\* a home run hit on the count 0-0 beside at-bats ahead and behind in the
\* count: the count keys hold fewer at-bats than the snapshot, and the
\* records are of two inning buckets
C26_Witness ==
    \E slot \in Batters :
        /\ \E r \in RowSet(Obj(slot).raw_data) :
               r.balls = <<0>> /\ r.strikes = <<0>> /\ IsAtBat(r)
        /\ StoredAtBats(Obj(slot).situational_stats, "ahead_count") > 0
        /\ StoredAtBats(Obj(slot).situational_stats, "behind_count") > 0
        /\ "even_count" \notin DOMAIN Obj(slot).situational_stats
        /\ CountAtBats(Obj(slot).situational_stats)
               < Obj(slot).summary_stats.total_abs
        /\ {"early_innings", "middle_innings"}
               \subseteq DOMAIN Obj(slot).situational_stats

====
